---- MODULE Spec2Model ----
(***************************************************************************)
(* State-machine model of the AI software estimator: the in-memory job     *)
(* store and its background estimation runner (app/core/estimator.py), the *)
(* LLM retry loop (app/core/claude_client.py), the on-disk save store      *)
(* (app/core/saves.py) and the HTTP handlers that drive them               *)
(* (app/api/routes.py).                                                    *)
(*                                                                         *)
(* Conventions.                                                            *)
(*  - A Python str that is formatted or written to a file is a sequence of *)
(*    string tokens; "\n" and "\r" are tokens of their own.                *)
(*  - Mandays are integers counting thousandths of a manday, money is in   *)
(*    thousandths of a currency unit, the day rate in whole units.         *)
(*  - A Job is a plain (non-slots) dataclass with five declared fields.    *)
(*    Every other attribute the handlers touch exists on a job object only *)
(*    after some update_job call set it; `attrs` is the set of such        *)
(*    attributes present, and reading one that is absent raises            *)
(*    AttributeError (HTTP 500 from a handler).                            *)
(***************************************************************************)
EXTENDS Integers, Sequences, FiniteSets, TLC

VARIABLES
    jobs,       \* estimator._JOBS: job_id -> Job
    tasks,      \* background run_estimation tasks: job_id -> frame (args, locals, pc)
    files,      \* REPORTS_DIR: job_id -> content of <job_id>.md
    saves,      \* SAVES_DIR: save_id -> content of <save_id>.json
    nextSave,   \* the next fresh save id (uuid4 never repeats)
    clock,      \* logical time, advanced by every save write
    origin,     \* history: how each job came to be ("create" | "open")
    claude,     \* one call_claude invocation followed attempt by attempt
    rollup      \* one _compute_financials application: its input and output

vars == <<jobs, tasks, files, saves, nextSave, clock, origin, claude, rollup>>

---------------------------------------------------------------------------
(* Bounds of the model. *)
MaxJobs == 2
MaxSaves == 2
MaxClock == 2

JobIds == 1..MaxJobs
SaveIds == 1..MaxSaves

---------------------------------------------------------------------------
(* Values. *)
None == [none |-> TRUE]

\* str(x) held in an Optional[str] field.
Str(tokens) == [text |-> tokens]

\* The attributes that are not declared fields of the Job dataclass.
DynAttrs == {"estimate_result", "financials", "requirements_md", "model_md",
             "save_id", "chat_history", "repo_summary"}

Job(job_id) ==
    [job_id |-> job_id,
     status |-> "pending",
     progress_message |-> "Waiting to start...",
     report_path |-> None,
     error_detail |-> None,
     attrs |-> {},
     estimate_result |-> None,
     financials |-> None,
     requirements_md |-> "",
     model_md |-> "",
     save_id |-> 0,
     chat_history |-> <<>>,
     repo_summary |-> <<>>]

\* hasattr(job, a)
HasAttr(job, a) == a \in job.attrs

\* uuid4(): an id no job has had (jobs are never removed from _JOBS).
FreshJobId == Cardinality(DOMAIN jobs) + 1

create_job(js) == [j \in DOMAIN js \cup {FreshJobId} |->
                      IF j \in DOMAIN js THEN js[j] ELSE Job(j)]

get_job(job_id) == IF job_id \in DOMAIN jobs THEN jobs[job_id] ELSE None

\* setattr for every keyword on every job of the store.
update_every_job(js, job_id, kwargs) ==
    [j \in DOMAIN js |->
        [k \in DOMAIN js[j] |->
            IF k = "attrs" THEN js[j].attrs \cup (DOMAIN kwargs \cap DynAttrs)
            ELSE IF k \in DOMAIN kwargs THEN kwargs[k]
            ELSE js[j][k]]]

\* setattr for every keyword; an unknown job id is ignored.
update_job(js, job_id, kwargs) ==
    IF job_id \notin DOMAIN js THEN js
    ELSE [js EXCEPT ![job_id] =
            [k \in DOMAIN js[job_id] |->
                IF k = "attrs" THEN js[job_id].attrs \cup (DOMAIN kwargs \cap DynAttrs)
                ELSE IF k \in DOMAIN kwargs THEN kwargs[k]
                ELSE js[job_id][k]]]

---------------------------------------------------------------------------
(* Text files.  Path.write_text / Path.read_text open the file in text     *)
(* mode with newline=None: writing replaces every "\n" by os.linesep,      *)
(* reading maps "\r\n" and a lone "\r" to "\n" (universal newlines).       *)

\* os.linesep of a Windows host.
CrLf == <<"\r", "\n">>

\* os.linesep of the POSIX host the service is deployed on.
LineSep == <<"\n">>

RECURSIVE WriteText(_)
WriteText(t) ==
    IF t = <<>> THEN <<>>
    ELSE (IF Head(t) = "\n" THEN LineSep ELSE <<Head(t)>>) \o WriteText(Tail(t))

RECURSIVE ReadText(_)
ReadText(b) ==
    IF b = <<>> THEN <<>>
    ELSE IF Head(b) = "\r" /\ Len(b) >= 2 /\ b[2] = "\n"
         THEN <<"\n">> \o ReadText(Tail(Tail(b)))
    ELSE IF Head(b) = "\r" THEN <<"\n">> \o ReadText(Tail(b))
    ELSE <<Head(b)>> \o ReadText(Tail(b))

---------------------------------------------------------------------------
(* The estimate data model (app/models/estimate.py), reduced to the fields *)
(* the rollup, the report and the handlers read.                           *)

Sat(active, total_mandays) == [active |-> active, total_mandays |-> total_mandays]

Satellites(pm, ba, sa, cyber, dx, qa) ==
    [pm_orchestration |-> pm,
     dedicated_business_analysis |-> ba,
     solution_architecture |-> sa,
     cybersecurity |-> cyber,
     digital_experience |-> dx,
     quality_assurance |-> qa]

SatelliteNames == {"pm_orchestration", "dedicated_business_analysis",
                   "solution_architecture", "cybersecurity",
                   "digital_experience", "quality_assurance"}

EstimateResult(name, summary, core_md, sats) ==
    [project_name |-> name,
     project_summary |-> summary,
     core |-> [total_mandays |-> core_md],
     satellites |-> sats]

\* Two schema-valid tool responses: one with every optional satellite off
\* (and an inactive satellite that still carries mandays), one with the
\* dedicated business analysis satellite on and a summary holding "\r\n".
EstAlpha ==
    EstimateResult("Alpha", <<"plain">>, 10000,
        Satellites(Sat(TRUE, 2000), Sat(FALSE, 0), Sat(FALSE, 3000),
                   Sat(FALSE, 0), Sat(FALSE, 0), Sat(FALSE, 0)))

EstBeta ==
    EstimateResult("Beta", <<"line1", "\r", "\n", "line2">>, 20500,
        Satellites(Sat(TRUE, 4000), Sat(TRUE, 5000), Sat(FALSE, 0),
                   Sat(FALSE, 0), Sat(FALSE, 0), Sat(TRUE, 1250)))

Estimates == {EstAlpha, EstBeta}

\* round(x, 2) on a value counted in thousandths: the nearest multiple of
\* ten thousandths, a tie going to the even hundredth.
Round2(x) ==
    LET q == x \div 10
        r == x % 10
    IN  IF r < 5 THEN 10 * q
        ELSE IF r > 5 THEN 10 * (q + 1)
        ELSE IF q % 2 = 0 THEN 10 * q ELSE 10 * (q + 1)

\* A count that ignores the active flag.
sat_total(sat) == sat.total_mandays

sat_md(sat) == IF sat.active THEN sat.total_mandays ELSE 0

_compute_financials(result, manday_cost, currency) ==
    LET s == result.satellites
        core_md == result.core.total_mandays
        pm_md == sat_md(s.pm_orchestration)
        sa_md == sat_md(s.solution_architecture)
        cyber_md == sat_md(s.cybersecurity)
        dx_md == sat_md(s.digital_experience)
        qa_md == sat_md(s.quality_assurance)
        grand_md == core_md + pm_md + sa_md + cyber_md + dx_md + qa_md
    IN  [manday_cost |-> manday_cost,
         currency |-> currency,
         core_mandays |-> core_md,
         core_cost |-> Round2(core_md * manday_cost),
         pm_mandays |-> pm_md,
         pm_cost |-> Round2(pm_md * manday_cost),
         ba_mandays |-> 0,
         ba_cost |-> 0,
         sa_mandays |-> sa_md,
         sa_cost |-> Round2(sa_md * manday_cost),
         cyber_mandays |-> cyber_md,
         cyber_cost |-> Round2(cyber_md * manday_cost),
         dx_mandays |-> dx_md,
         dx_cost |-> Round2(dx_md * manday_cost),
         qa_mandays |-> qa_md,
         qa_cost |-> Round2(qa_md * manday_cost),
         grand_mandays |-> Round2(grand_md),
         grand_cost |-> Round2(grand_md * manday_cost)]

---------------------------------------------------------------------------
(* Report rendering (app/core/report_generator.py).  The template itself   *)
(* is not part of the modelled sources: the rendering is a token sequence  *)
(* that embeds the estimate's texts, the rollup's totals and the warning.  *)

Render(estimate, financials, github_warning) ==
    <<"# ", estimate.project_name, "\n">>
    \o estimate.project_summary
    \o <<"\n", "total: ", ToString(financials.grand_mandays),
         ToString(financials.grand_cost), financials.currency, "\n">>
    \o (IF github_warning = <<>> THEN <<>>
        ELSE <<"warning: ">> \o github_warning \o <<"\n">>)

\* generate_report: render, then report_path.write_text(rendered).
generate_report(fs, job_id, estimate, financials, github_warning) ==
    [j \in DOMAIN fs \cup {job_id} |->
        IF j = job_id THEN WriteText(Render(estimate, financials, github_warning))
        ELSE fs[j]]

---------------------------------------------------------------------------
(* Exceptions: a type and the tokens of str(exc). *)

Exc(type, msg) == [type |-> type, msg |-> msg]

APIError == Exc("APIError", <<"Connection error.">>)
NoToolUse == Exc("ValueError", <<"Claude did not return a tool_use block">>)
ValidationError == Exc("ValidationError", <<"1 validation error for EstimateResult">>)
TemplateError == Exc("TemplateNotFound", <<"report_template.md.j2">>)
KeyError == Exc("KeyError", <<"'path'">>)

\* RuntimeError(f"Claude API failed after {max_retries} attempts: {last_error}")
RuntimeError(retries, last_error) ==
    Exc("RuntimeError",
        <<"Claude API failed after ", ToString(retries), " attempts: ">> \o last_error.msg)

---------------------------------------------------------------------------
(* The LLM estimation call (claude_client.call_claude). *)

max_retries == 3

\* What one client.messages.create call plus the extraction and validation of
\* its tool_use block can end in.
AttemptOutcomes ==
    {[ok |-> TRUE, value |-> e] : e \in Estimates}
    \cup {[ok |-> FALSE, value |-> x] : x \in {APIError, NoToolUse, ValidationError}}

\* The locals of one call_claude invocation, at the top of its first attempt.
CallFrame ==
    [pc |-> "attempt",
     attempt |-> 1,
     api_calls |-> 0,
     sleeps |-> <<>>,
     last_error |-> None,
     result |-> None,
     exc |-> None]

\* A backoff that grows by one second per attempt.
LinearWait(attempt) == attempt + 1

\* wait = 2 ** attempt
BackoffWait(attempt) == 2 ^ attempt

\* if attempt < max_retries: sleep and go round again
RetriesLeft(attempt) == attempt < max_retries

\* One pass of the body of `for attempt in range(1, max_retries + 1)`, the
\* API call ending in `out`: return, sleep and retry, or leave the loop and raise.
call_claude_attempt(c, out) ==
    IF out.ok
    THEN [c EXCEPT !.api_calls = @ + 1, !.result = out.value, !.pc = "returned"]
    ELSE IF RetriesLeft(c.attempt)
    THEN [c EXCEPT !.api_calls = @ + 1, !.last_error = out.value,
                   !.sleeps = Append(@, BackoffWait(c.attempt)),
                   !.attempt = @ + 1]
    ELSE [c EXCEPT !.api_calls = @ + 1, !.last_error = out.value,
                   !.exc = RuntimeError(max_retries, out.value),
                   !.pc = "raised"]

\* The whole call, the API answering its successive attempts with outs[1], outs[2], ...
RECURSIVE call_claude_from(_, _)
call_claude_from(c, outs) ==
    IF c.pc # "attempt" THEN c
    ELSE call_claude_from(call_claude_attempt(c, Head(outs)), Tail(outs))

call_claude(outs) == call_claude_from(CallFrame, outs)

\* What the API may answer to the attempts of one call: failures up to a
\* first success, or max_retries failures.
OutcomeSeqs ==
    {outs \in UNION {[1..n -> AttemptOutcomes] : n \in 1..max_retries} :
        /\ \A i \in 1..(Len(outs) - 1) : ~outs[i].ok
        /\ Len(outs) < max_retries => outs[Len(outs)].ok}

---------------------------------------------------------------------------
(* The repository digest fetch, as run_estimation sees it: the pair        *)
(* (summary, warning) fetch_repo_summary returns, or the exception that    *)
(* escapes it.                                                             *)

GoodUrl == "https://github.com/owner/repo"

BadUrl == "owner/repo"

\* _parse_github_url: whether the URL matches https?://github.com/<owner>/<repo>.
Parsable(url) == url = GoodUrl

\* The blobs the listing of owner/repo returns, in priority order.
Blobs == <<"README.md", "app.py">>

\* What the remote does during one fetch: the listing request fails, returns
\* a blob entry without "path", or lists Blobs; and which raw file requests
\* fail.
FetchEnv(tree, failing) == [tree |-> tree, failing |-> failing]

FetchEnvs ==
    {FetchEnv("failed", {}), FetchEnv("malformed", {})}
    \cup {FetchEnv("listed", f) : f \in SUBSET {Blobs[i] : i \in 1..Len(Blobs)}}

\* sections[0]
Digest == <<"# Repository: owner/repo (branch: main)", "\n">>

\* chunk: a heading with the path, then the file's content in a code fence.
Chunk(path) ==
    <<"\n", "## ", path, "\n", "[fence]", "\n", "content of ", path, "\n", "[fence]", "\n">>

\* The for loop over the blobs: a file whose request fails is skipped.
RECURSIVE Sections(_, _)
Sections(i, env) ==
    IF i > Len(Blobs) THEN <<>>
    ELSE (IF Blobs[i] \in env.failing THEN <<>> ELSE Chunk(Blobs[i]))
         \o Sections(i + 1, env)

\* A fetch that hands the failure of the listing request on to its caller.
fetch_propagates(github_url, env) ==
    IF env.tree = "listed" /\ Parsable(github_url)
    THEN [raised |-> FALSE, summary |-> Digest \o Sections(1, env), warning |-> <<>>]
    ELSE [raised |-> TRUE, summary |-> <<>>, warning |-> <<>>]

\* fetch_repo_summary: the pair (summary, warning) it returns, or raised when
\* an exception escapes it.
fetch_repo_summary(github_url, env) ==
    IF ~Parsable(github_url)
    THEN [raised |-> FALSE, summary |-> <<>>,
          warning |-> <<"Cannot parse GitHub URL: ", github_url>>]
    ELSE IF env.tree = "failed"
    THEN [raised |-> FALSE, summary |-> <<>>,
          warning |-> <<"GitHub fetch failed: ", "404 Not Found">>]
    \* a tree entry without "path": the filter at line 93 is outside both
    \* try blocks
    ELSE IF env.tree = "malformed"
    THEN [raised |-> TRUE, summary |-> <<>>, warning |-> <<>>]
    ELSE [raised |-> FALSE, summary |-> Digest \o Sections(1, env), warning |-> <<>>]

\* The body of fetch_repo_summary after the listing was read (lines 92-114),
\* for any listing.  A path is its directory components, its file name cut
\* before every dot, and the length of the whole path string; a blob is a
\* path with the length of the content _fetch_file_content returns for it.
SKIP_DIRS == {"node_modules", ".git", "dist", "build", "vendor", "__pycache__",
              ".next", "coverage"}

MAX_TOTAL_CHARS == 80000

PRIORITY_EXTENSIONS ==
    << <<".md">>, <<".rst">>, <<".txt">>,
       <<".py">>, <<".ts">>, <<".tsx">>, <<".js">>, <<".jsx">>, <<".go">>, <<".java">>,
       <<".rb">>, <<".rs">>, <<".cs">>, <<".cpp">>, <<".c">>,
       <<".json">>, <<".yaml">>, <<".yml">>, <<".toml">>, <<".env", ".example">> >>

Path(dirs, name, chars) == [dirs |-> dirs, name |-> name, chars |-> chars]

Blob(path, content_chars) == [path |-> path, content_chars |-> content_chars]

\* path.endswith(ext)
EndsWith(path, ext) ==
    /\ Len(path.name) >= Len(ext)
    /\ SubSeq(path.name, Len(path.name) - Len(ext) + 1, Len(path.name)) = ext

_extension_priority(path) ==
    LET hits == {i \in 1..Len(PRIORITY_EXTENSIONS) : EndsWith(path, PRIORITY_EXTENSIONS[i])}
    IN  IF hits = {} THEN Len(PRIORITY_EXTENSIONS)
        ELSE (CHOOSE i \in hits : \A k \in hits : i <= k) - 1

\* any(part in SKIP_DIRS for part in path.split("/"))
_should_skip(path) ==
    \/ \E i \in 1..Len(path.dirs) : path.dirs[i] \in SKIP_DIRS
    \/ Len(path.name) = 1 /\ path.name[1] \in SKIP_DIRS

\* A digest that keeps the order of the listing.
ListingOrder(blobs) == blobs

\* blobs.sort(key=lambda b: _extension_priority(b["path"])): a stable sort.
RECURSIVE SortBlobs(_)
SortBlobs(blobs) ==
    IF blobs = <<>> THEN <<>>
    ELSE LET sorted == SortBlobs(SubSeq(blobs, 1, Len(blobs) - 1))
             b == blobs[Len(blobs)]
             k == Cardinality({i \in 1..Len(sorted) :
                     _extension_priority(sorted[i].path) <= _extension_priority(b.path)})
         IN  SubSeq(sorted, 1, k) \o <<b>> \o SubSeq(sorted, k + 1, Len(sorted))

\* One element of `sections`: the header, a file's chunk or the truncation
\* notice, with its length in characters.
Section(kind, path, chars) == [kind |-> kind, path |-> path, chars |-> chars]

NoPath == Path(<<>>, <<>>, 0)

\* f"# Repository: {owner}/{repo} (branch: {branch})\n" for owner/repo, main
HeaderSection == Section("header", NoPath, 40)

\* f"\n## {path}\n```\n{content}\n```\n"
ChunkSection(blob) == Section("file", blob.path, blob.path.chars + blob.content_chars + 14)

\* f"\n[Repository summary truncated at {MAX_TOTAL_CHARS} characters]"
TruncatedSection == Section("truncated", NoPath, 51)

\* The for loop from blob i on: st holds sections, total_chars and the paths
\* requested so far.
RECURSIVE SummaryLoop(_, _, _, _)
SummaryLoop(blobs, i, failing, st) ==
    IF i > Len(blobs) THEN st
    ELSE LET blob == blobs[i]
             asked == [st EXCEPT !.fetched = Append(@, blob.path)]
             chunk == ChunkSection(blob)
         IN  IF blob.path \in failing
             THEN SummaryLoop(blobs, i + 1, failing, asked)
             ELSE IF st.total_chars + chunk.chars > MAX_TOTAL_CHARS
             THEN [asked EXCEPT !.sections = Append(@, TruncatedSection)]
             ELSE SummaryLoop(blobs, i + 1, failing,
                     [asked EXCEPT !.sections = Append(@, chunk),
                                   !.total_chars = @ + chunk.chars])

\* Lines 92-114 for a listing and the set of paths whose request fails.
summarize_listing(listing, failing) ==
    LET blobs == SortBlobs(SelectSeq(listing, LAMBDA b : ~_should_skip(b.path)))
    IN  SummaryLoop(blobs, 1, failing,
            [sections |-> <<HeaderSection>>, total_chars |-> HeaderSection.chars,
             fetched |-> <<>>])

\* The remotes the runs meet: the listing fails, is malformed, or succeeds
\* while no file can be fetched.
RunFetchEnvs ==
    {FetchEnv("failed", {}), FetchEnv("malformed", {}),
     FetchEnv("listed", {Blobs[i] : i \in 1..Len(Blobs)})}

FetchOutcomes == {fetch_repo_summary(GoodUrl, env) : env \in RunFetchEnvs}

---------------------------------------------------------------------------
(* The background run (estimator.run_estimation).  One action per blocking *)
(* call (the digest fetch, the LLM call, the report write) and per         *)
(* update_job that changes the status; a progress update that only opens   *)
(* the next step belongs to the action that ends the step before it.       *)

Frame(requirements_md, model_md, github_url, manday_cost, currency) ==
    [pc |-> "queued",
     requirements_md |-> requirements_md,
     model_md |-> model_md,
     github_url |-> github_url,
     manday_cost |-> manday_cost,
     currency |-> currency,
     repo_summary |-> <<>>,
     repo_warning |-> <<>>,
     prompt |-> None,
     result |-> None,
     financials |-> None,
     exc |-> None]

add_task(ts, job_id, frame) ==
    [j \in DOMAIN ts \cup {job_id} |-> IF j = job_id THEN frame ELSE ts[j]]

end_task(ts, job_id) == [j \in DOMAIN ts \ {job_id} |-> ts[j]]

AtPc(j, pc) == j \in DOMAIN tasks /\ tasks[j].pc = pc

Progress(message) == [progress_message |-> message]

\* A first update that already reports the job done.
StartAsDone == [status |-> "done", progress_message |-> "Starting estimation..."]

\* update_job(job_id, status="running", progress_message="Starting estimation...")
RunStartUpdate == [status |-> "running", progress_message |-> "Starting estimation..."]

run_start(j) ==
    /\ AtPc(j, "queued")
    /\ jobs' = update_job(update_job(jobs, j, RunStartUpdate), j,
                  IF tasks[j].github_url # ""
                  THEN Progress("Fetching GitHub repository...")
                  ELSE Progress("Calling Claude API - this may take 30-90 seconds..."))
    /\ tasks' = [tasks EXCEPT ![j].pc =
                    IF tasks[j].github_url # "" THEN "fetch" ELSE "call"]
    /\ UNCHANGED <<files, saves, nextSave, clock, origin, claude, rollup>>

\* repo_summary, repo_warning = github_client.fetch_repo_summary(github_url, github_token)
\* where the call ends in one of `outs`.
run_fetch_from(j, outs) ==
    /\ AtPc(j, "fetch")
    /\ \E out \in outs :
          IF out.raised
          THEN /\ tasks' = [tasks EXCEPT ![j].exc = KeyError, ![j].pc = "raised"]
               /\ UNCHANGED jobs
          ELSE /\ tasks' = [tasks EXCEPT ![j].repo_summary = out.summary,
                                         ![j].repo_warning = out.warning,
                                         ![j].pc = "call"]
               /\ jobs' = update_job(jobs, j, Progress("Calling Claude API - this may take 30-90 seconds..."))
    /\ UNCHANGED <<files, saves, nextSave, clock, origin, claude, rollup>>

run_fetch(j) == run_fetch_from(j, FetchOutcomes)

\* The arguments run_estimation passes to call_claude.
Prompt(model_md, requirements_md, repo_summary) ==
    [model_md |-> model_md, requirements_md |-> requirements_md,
     repo_summary |-> repo_summary]

\* The step after call_claude returned.
AfterCall == "financials"

run_call_claude(j) ==
    /\ AtPc(j, "call")
    /\ \E outs \in OutcomeSeqs :
          LET c == call_claude(outs)
              f == [tasks[j] EXCEPT !.prompt = Prompt(tasks[j].model_md,
                                        tasks[j].requirements_md, tasks[j].repo_summary)]
          IN  IF c.pc = "raised"
              THEN /\ tasks' = [tasks EXCEPT ![j] = [f EXCEPT !.exc = c.exc, !.pc = "raised"]]
                   /\ UNCHANGED jobs
              ELSE /\ tasks' = [tasks EXCEPT ![j] =
                                  [f EXCEPT !.result = c.result, !.pc = AfterCall]]
                   /\ jobs' = update_job(jobs, j, Progress("Computing financials..."))
    /\ UNCHANGED <<files, saves, nextSave, clock, origin, claude, rollup>>

run_financials(j) ==
    /\ AtPc(j, "financials")
    /\ jobs' = update_job(jobs, j, Progress("Generating report..."))
    /\ tasks' = [tasks EXCEPT
                    ![j].financials = _compute_financials(tasks[j].result,
                                          tasks[j].manday_cost, tasks[j].currency),
                    ![j].pc = "report"]
    /\ UNCHANGED <<files, saves, nextSave, clock, origin, claude, rollup>>

\* A report step that writes nothing.
NoReportFiles(j) == files

\* generate_report(estimate=result, financials=financials, report_path=..., github_warning=...)
RunReportFiles(j) ==
    generate_report(files, j, tasks[j].result, tasks[j].financials, tasks[j].repo_warning)

run_report(j) ==
    /\ AtPc(j, "report")
    /\ \/ /\ files' = RunReportFiles(j)
          /\ tasks' = [tasks EXCEPT ![j].pc = "mark_done"]
       \/ /\ tasks' = [tasks EXCEPT ![j].exc = TemplateError, ![j].pc = "raised"]
          /\ UNCHANGED files
    /\ UNCHANGED <<jobs, saves, nextSave, clock, origin, claude, rollup>>

\* update_job(job_id, status="done", progress_message="Report ready.", report_path=report_path)
RunDoneUpdate(j) ==
    [status |-> "done", progress_message |-> "Report ready.",
     report_path |-> [reports_dir |-> j]]

run_done(j) ==
    /\ AtPc(j, "mark_done")
    /\ jobs' = update_job(jobs, j, RunDoneUpdate(j))
    /\ tasks' = end_task(tasks, j)
    /\ UNCHANGED <<files, saves, nextSave, clock, origin, claude, rollup>>

\* An except clause that records the text but leaves the status alone.
ExceptKeepsStatus(exc) ==
    [error_detail |-> Str(exc.msg), progress_message |-> "Estimation failed."]

\* An except clause that marks the job without recording the text.
ExceptWithoutDetail(exc) ==
    [status |-> "error", progress_message |-> "Estimation failed."]

\* except Exception as exc: update_job(job_id, status="error", error_detail=str(exc), ...)
RunExceptUpdate(exc) ==
    [status |-> "error", error_detail |-> Str(exc.msg),
     progress_message |-> "Estimation failed."]

run_except(j) ==
    /\ AtPc(j, "raised")
    /\ jobs' = update_job(jobs, j, RunExceptUpdate(tasks[j].exc))
    /\ tasks' = end_task(tasks, j)
    /\ UNCHANGED <<files, saves, nextSave, clock, origin, claude, rollup>>

run_estimation(j) ==
    \/ run_start(j)
    \/ run_fetch(j)
    \/ run_call_claude(j)
    \/ run_financials(j)
    \/ run_report(j)
    \/ run_done(j)
    \/ run_except(j)

---------------------------------------------------------------------------
(* The save store (app/core/saves.py): one JSON file per save.             *)

\* json.dumps(data, indent=2, ensure_ascii=False) written to <save_id>.json at
\* time `now`, and json.loads of that file.  Newlines and carriage returns
\* inside strings are escaped by dumps, so the text-mode newline translation
\* never touches them.
JsonFile(data, now) == [json |-> data, mtime |-> now]
JsonLoads(file) == file.json

_path_exists(store, save_id) == save_id \in DOMAIN store

write_save(store, save_id, data, now) ==
    [s \in DOMAIN store \cup {save_id} |->
        IF s = save_id THEN JsonFile(data, now) ELSE store[s]]

SaveData(save_id, name, status, created_at, updated_at, requirements_md, model_md, report_markdown, estimate_data, financials_data) ==
    [save_id |-> save_id,
     name |-> name,
     status |-> status,
     created_at |-> created_at,
     updated_at |-> updated_at,
     requirements_md |-> requirements_md,
     model_md |-> model_md,
     report_markdown |-> report_markdown,
     estimate_data |-> estimate_data,
     financials_data |-> financials_data]

\* create_save: the record written under a fresh uuid4.
saves_create_save(save_id, now, name, requirements_md, model_md, report_markdown, estimate_data, financials_data) ==
    SaveData(save_id, name, "draft", now, now, requirements_md, model_md,
             report_markdown, estimate_data, financials_data)

saves_get_save(store, save_id) ==
    IF ~_path_exists(store, save_id) THEN None ELSE JsonLoads(store[save_id])

\* A store in which no save is read-only.
NeverReadOnly(data) == FALSE

\* A save that update_save and delete_save refuse to touch.
IsReadOnly(data) == data.status = "final"

\* A finalize that writes the record again when it is final already.
finalize_rewrites(store, save_id, now) ==
    LET data == saves_get_save(store, save_id)
        final == [data EXCEPT !.status = "final", !.updated_at = now]
    IN  IF data = None THEN <<store, None>>
        ELSE <<write_save(store, save_id, final, now), final>>

\* finalize_save: <<the store afterwards, the returned value>>
saves_finalize_save(store, save_id, now) ==
    LET data == saves_get_save(store, save_id)
        final == [data EXCEPT !.status = "final", !.updated_at = now]
    IN  IF data = None THEN <<store, None>>
        ELSE IF data.status = "final" THEN <<store, data>>
        ELSE <<write_save(store, save_id, final, now), final>>

\* An update that writes the record anew, as create_save does.
replace_save(store, save_id, now, report_markdown, estimate_data, financials_data) ==
    LET data == saves_get_save(store, save_id)
        new == SaveData(save_id, estimate_data.project_name, "draft", now, now,
                        data.requirements_md, data.model_md,
                        report_markdown, estimate_data, financials_data)
    IN  IF data = None THEN <<store, None>>
        ELSE IF IsReadOnly(data) THEN <<store, None>>
        ELSE <<write_save(store, save_id, new, now), new>>

\* update_save: <<the store afterwards, the returned value>>
saves_update_save(store, save_id, now, report_markdown, estimate_data, financials_data) ==
    LET data == saves_get_save(store, save_id)
        new == [data EXCEPT !.report_markdown = report_markdown,
                            !.estimate_data = estimate_data,
                            !.financials_data = financials_data,
                            !.updated_at = now]
    IN  IF data = None THEN <<store, None>>
        ELSE IF IsReadOnly(data) THEN <<store, None>>
        ELSE <<write_save(store, save_id, new, now), new>>

\* A *.json file of SAVES_DIR that json.loads or the key lookups of list_saves
\* reject.
Garbled == [garbled |-> TRUE]

\* The dict list_saves appends for one file.
SaveSummary(data) ==
    [save_id |-> data.save_id,
     name |-> data.name,
     status |-> data.status,
     created_at |-> data.created_at,
     updated_at |-> data.updated_at,
     project_name |-> data.estimate_data.project_name,
     grand_mandays |-> data.financials_data.grand_mandays,
     grand_cost |-> data.financials_data.grand_cost,
     currency |-> data.financials_data.currency]

FileOrders(store) ==
    {o \in [1..Cardinality(DOMAIN store) -> DOMAIN store] :
        \A i, k \in DOMAIN o : i # k => o[i] # o[k]}

\* A listing in the order of the file names.
SortedByName(store) ==
    {o \in FileOrders(store) : \A i, k \in DOMAIN o : i < k => o[i] < o[k]}

\* sorted(SAVES_DIR.glob("*.json"), key=lambda p: p.stat().st_mtime,
\* reverse=True): glob yields the files in the order of the directory, which
\* is any order, and files of equal mtime keep it.
SortedByMtime(store) ==
    {o \in FileOrders(store) :
        \A i, k \in DOMAIN o : i < k => store[o[i]].mtime >= store[o[k]].mtime}

\* list_saves: the lists it can return.
saves_list_saves(store) ==
    {LET read == SelectSeq(o, LAMBDA f : JsonLoads(store[f]) # Garbled)
     IN  [i \in 1..Len(read) |-> SaveSummary(JsonLoads(store[read[i]]))] :
     o \in SortedByMtime(store)}

\* A delete that unlinks whatever file is there.
unlink_any(store, save_id) ==
    IF save_id \notin DOMAIN store THEN <<store, FALSE>>
    ELSE <<[s \in DOMAIN store \ {save_id} |-> store[s]], TRUE>>

\* delete_save: <<the store afterwards, the returned value>>
saves_delete_save(store, save_id) ==
    LET data == saves_get_save(store, save_id)
    IN  IF data = None THEN <<store, FALSE>>
        ELSE IF IsReadOnly(data) THEN <<store, FALSE>>
        ELSE <<[s \in DOMAIN store \ {save_id} |-> store[s]], TRUE>>

---------------------------------------------------------------------------
(* The HTTP handlers (app/api/routes.py), each served alone: one atomic    *)
(* action per request (the section on requests served at the same time     *)
(* follows rerun_estimate and chat step by step).  A handler's response is *)
(* an operator of the state it runs in and of its request; the action      *)
(* applies the handler's effect on the stores.                             *)

\* A response: the status code, and the HTTPException detail (or the
\* unhandled exception behind a 500).
Detail(code, detail) == [code |-> code, detail |-> detail]

Ok == Detail(200, "")

\* str.strip() on the request texts the model uses.
Strip(text) ==
    CASE text = "   " -> ""
      [] text = " R-text " -> "R-text"
      [] text = " Mine " -> "Mine"
      [] OTHER -> text

\* settings.DEFAULT_MODEL_PATH.read_text(): the shipped estimation model.
DefaultModel == "M-default"

\* Multipart forms of POST /api/estimate; "" is an absent file or field.
EstimateRequest(file, text, model, url, cost, cur) ==
    [requirements_file |-> file, requirements_text |-> text,
     estimation_model_file |-> model, github_url |-> url,
     manday_cost |-> cost, currency |-> cur]

CreateRequests ==
    {EstimateRequest("", "", "", "", 500, "EUR"),
     EstimateRequest("", "   ", "", GoodUrl, 500, "EUR"),
     EstimateRequest("", " R-text ", "", "", 500, "EUR"),
     EstimateRequest("R-file", " R-text ", "M-upload", GoodUrl, 800, "USD")}

\* A resolution that prefers the text field to the uploaded file.
TextBeforeFile(req) ==
    IF req.requirements_text # "" /\ Strip(req.requirements_text) # ""
    THEN Strip(req.requirements_text)
    ELSE req.requirements_file

\* The requirements text create_estimate resolves, "" when there is none.
ResolveRequirements(req) ==
    IF req.requirements_file # "" THEN req.requirements_file
    ELSE IF req.requirements_text # "" /\ Strip(req.requirements_text) # ""
    THEN Strip(req.requirements_text)
    ELSE ""

create_estimate_response(req) ==
    IF ResolveRequirements(req) = ""
    THEN Detail(422, "Provide either requirements_file or requirements_text.")
    ELSE Ok

create_estimate(req) ==
    LET model_md == IF req.estimation_model_file # "" THEN req.estimation_model_file
                    ELSE DefaultModel
        job_id == FreshJobId
    IN  IF create_estimate_response(req) # Ok
        THEN UNCHANGED vars
        ELSE /\ job_id \in JobIds
             /\ jobs' = create_job(jobs)
             /\ tasks' = add_task(tasks, job_id,
                            Frame(ResolveRequirements(req), model_md, req.github_url,
                                  req.manday_cost, req.currency))
             /\ origin' = [j \in DOMAIN origin \cup {job_id} |->
                              IF j = job_id THEN "create" ELSE origin[j]]
             /\ UNCHANGED <<files, saves, nextSave, clock, claude, rollup>>

get_status_response(job_id) ==
    IF get_job(job_id) = None THEN Detail(404, "Job not found") ELSE Ok

get_status(job_id) ==
    /\ get_status_response(job_id).code \in {200, 404}
    /\ UNCHANGED vars

\* job.report_path is None or not job.report_path.exists()
ReportMissing(job) ==
    job.report_path = None \/ job.report_path.reports_dir \notin DOMAIN files

\* Guards that look for the job only.
GuardWithoutStatus(job) == IF job = None THEN Detail(404, "Job not found") ELSE Ok

\* The guards create_save, update_save and get_job_plan share, in order.
EstimateGuard(job) ==
    IF job = None THEN Detail(404, "Job not found")
    ELSE IF job.status # "done" THEN Detail(409, "Estimation not complete")
    ELSE IF ~HasAttr(job, "estimate_result") THEN Detail(500, "AttributeError")
    ELSE IF job.estimate_result = None THEN Detail(409, "Estimation not complete")
    ELSE Ok

\* The attributes create_save reads after its guards; a missing one, or
\* financials being None, raises AttributeError.
SaveInputsReadable(job) ==
    /\ HasAttr(job, "requirements_md")
    /\ HasAttr(job, "model_md")
    /\ HasAttr(job, "financials")
    /\ job.financials # None

create_save_response(job_id) ==
    LET job == get_job(job_id)
    IN  IF EstimateGuard(job) # Ok THEN EstimateGuard(job)
        ELSE IF ReportMissing(job) THEN Detail(500, "Report file missing")
        ELSE IF ~SaveInputsReadable(job) THEN Detail(500, "AttributeError")
        ELSE Ok

NameInputs == {"   ", " Mine "}

\* The record create_save stores for a job its guards accept.
CreateSaveData(job, name, save_id, now) ==
    saves_create_save(save_id, now,
        IF Strip(name) # "" THEN Strip(name) ELSE job.estimate_result.project_name,
        job.requirements_md, job.model_md,
        ReadText(files[job.report_path.reports_dir]),
        job.estimate_result, job.financials)

create_save(job_id, name) ==
    IF create_save_response(job_id) # Ok
    THEN UNCHANGED vars
    ELSE /\ nextSave \in SaveIds
         /\ clock < MaxClock
         /\ saves' = write_save(saves, nextSave,
                        CreateSaveData(jobs[job_id], name, nextSave, clock + 1), clock + 1)
         /\ nextSave' = nextSave + 1
         /\ clock' = clock + 1
         /\ UNCHANGED <<jobs, tasks, files, origin, claude, rollup>>

get_save_response(save_id) ==
    IF saves_get_save(saves, save_id) = None THEN Detail(404, "Save not found") ELSE Ok

get_save(save_id) ==
    /\ get_save_response(save_id).code \in {200, 404}
    /\ UNCHANGED vars

finalize_save_response(save_id) ==
    IF saves_finalize_save(saves, save_id, clock + 1)[2] = None
    THEN Detail(404, "Save not found")
    ELSE Ok

finalize_save(save_id) ==
    LET r == saves_finalize_save(saves, save_id, clock + 1)
    IN  /\ r[1] # saves => clock < MaxClock
        /\ saves' = r[1]
        /\ clock' = IF r[1] # saves THEN clock + 1 ELSE clock
        /\ UNCHANGED <<jobs, tasks, files, nextSave, origin, claude, rollup>>

\* ok = saves_store.delete_save(save_id); when not ok the handler reads the
\* save again to tell 404 from 403.
delete_save_response(store, save_id) ==
    LET r == saves_delete_save(store, save_id)
    IN  IF r[2] THEN Ok
        ELSE IF saves_get_save(r[1], save_id) = None THEN Detail(404, "Save not found")
        ELSE Detail(403, "Finalized estimates cannot be deleted")

delete_save(save_id) ==
    /\ saves' = saves_delete_save(saves, save_id)[1]
    /\ UNCHANGED <<jobs, tasks, files, nextSave, clock, origin, claude, rollup>>

\* GET /api/saves: [SaveSummary(**s) for s in saves_store.list_saves()]
list_saves ==
    /\ saves_list_saves(saves) # {}
    /\ UNCHANGED vars

\* report_path.write_text(data["report_markdown"], encoding="utf-8")
OpenReportFile(data) == WriteText(data.report_markdown)

\* An open that loads the estimate but not the texts it was made from.
OpenWithoutInputs(job_id, save_id, data) ==
    [status |-> "done",
     progress_message |-> "Report ready.",
     report_path |-> [reports_dir |-> job_id],
     estimate_result |-> data.estimate_data,
     financials |-> data.financials_data,
     requirements_md |-> "",
     model_md |-> "",
     save_id |-> save_id]

\* The keywords of open_save's update_job call.
OpenSaveUpdate(job_id, save_id, data) ==
    [status |-> "done",
     progress_message |-> "Report ready.",
     report_path |-> [reports_dir |-> job_id],
     estimate_result |-> data.estimate_data,
     financials |-> data.financials_data,
     requirements_md |-> data.requirements_md,
     model_md |-> data.model_md,
     save_id |-> save_id]

open_save_response(save_id) ==
    IF saves_get_save(saves, save_id) = None THEN Detail(404, "Save not found") ELSE Ok

open_save(save_id) ==
    LET data == saves_get_save(saves, save_id)
        job_id == FreshJobId
    IN  IF open_save_response(save_id) # Ok
        THEN UNCHANGED vars
        ELSE /\ job_id \in JobIds
             /\ jobs' = update_job(create_job(jobs), job_id,
                                   OpenSaveUpdate(job_id, save_id, data))
             /\ files' = [j \in DOMAIN files \cup {job_id} |->
                             IF j = job_id THEN OpenReportFile(data) ELSE files[j]]
             /\ origin' = [j \in DOMAIN origin \cup {job_id} |->
                              IF j = job_id THEN "open" ELSE origin[j]]
             /\ UNCHANGED <<tasks, saves, nextSave, clock, claude, rollup>>

\* What update_save hands to the store for a job its guards accept.
UpdateSaveResult(save_id, job, now) ==
    saves_update_save(saves, save_id, now,
        ReadText(files[job.report_path.reports_dir]),
        job.estimate_result, job.financials)

update_save_response(save_id, job_id) ==
    LET job == get_job(job_id)
    IN  IF EstimateGuard(job) # Ok THEN EstimateGuard(job)
        ELSE IF ReportMissing(job) THEN Detail(500, "Report file missing")
        ELSE IF ~HasAttr(job, "financials") \/ job.financials = None
        THEN Detail(500, "AttributeError")
        ELSE IF UpdateSaveResult(save_id, job, clock + 1)[2] = None
        THEN Detail(404, "Save not found or already finalized")
        ELSE Ok

update_save(save_id, job_id) ==
    IF update_save_response(save_id, job_id) # Ok
    THEN UNCHANGED vars
    ELSE /\ clock < MaxClock
         /\ saves' = UpdateSaveResult(save_id, jobs[job_id], clock + 1)[1]
         /\ clock' = clock + 1
         /\ UNCHANGED <<jobs, tasks, files, nextSave, origin, claude, rollup>>

get_report_response(job_id) ==
    LET job == get_job(job_id)
    IN  IF job = None THEN Detail(404, "Job not found")
        ELSE IF job.status # "done" THEN Detail(409, "Report not ready")
        ELSE IF ReportMissing(job) THEN Detail(500, "Report file missing")
        ELSE Ok

get_report(job_id) ==
    /\ get_report_response(job_id).code \in {200, 404, 409, 500}
    /\ UNCHANGED vars

\* GET /api/estimate/{job_id}/plan: the roles and plan phases of the estimate.
get_job_plan_response(job_id) == EstimateGuard(get_job(job_id))

get_job_plan(job_id) ==
    /\ get_job_plan_response(job_id).code \in {200, 404, 409, 500}
    /\ UNCHANGED vars

---------------------------------------------------------------------------
(* Re-run (routes.rerun_estimate). *)

\* Multipart forms of POST /api/estimate/{job_id}/rerun; "" is an absent field.
RerunRequest(model, file, text) ==
    [rerun_model |-> model, rerun_requirements_file |-> file,
     rerun_requirements_text |-> text]

NoOverrides == RerunRequest("", "", "")

RerunRequests ==
    {NoOverrides,
     RerunRequest("M-rerun", "", " R-text "),
     RerunRequest("", "R-rerun-file", "")}

\* A guard that lets every job through.
AlwaysRerunnable(job) == TRUE

\* if job.status not in ("done", "error"): 409
Rerunnable(job) == job.status \in {"done", "error"}

\* Whether the request carries a requirements override.
OverridesRequirements(req) ==
    \/ req.rerun_requirements_file # ""
    \/ (req.rerun_requirements_text # "" /\ Strip(req.rerun_requirements_text) # "")

\* The attributes rerun_estimate reads before it resets the job: model_md
\* and requirements_md when not overridden, and financials.
RerunInputsReadable(job, req) ==
    /\ req.rerun_model # "" \/ HasAttr(job, "model_md")
    /\ OverridesRequirements(req) \/ HasAttr(job, "requirements_md")
    /\ HasAttr(job, "financials")

\* The keywords of rerun_estimate's update_job call.
RerunUpdate(model_md, new_requirements_md) ==
    [status |-> "pending",
     progress_message |-> "Waiting to start...",
     error_detail |-> None,
     estimate_result |-> None,
     financials |-> None,
     model_md |-> model_md,
     requirements_md |-> new_requirements_md,
     chat_history |-> <<>>]

\* The task rerun_estimate schedules: run_estimation called with the extra
\* keyword cached_repo_summary, which it does not accept, so the call raises
\* TypeError before the function body (and its try) is entered.  No step
\* continues a frame at "bad_call".
RerunFrame(requirements_md, model_md, manday_cost, currency, cached_repo_summary) ==
    [Frame(requirements_md, model_md, "", manday_cost, currency) EXCEPT
        !.pc = "bad_call", !.repo_summary = cached_repo_summary]

rerun_model_md(job, req) ==
    IF req.rerun_model # "" THEN req.rerun_model ELSE job.model_md

rerun_requirements_md(job, req) ==
    IF req.rerun_requirements_file # "" THEN req.rerun_requirements_file
    ELSE IF OverridesRequirements(req) THEN Strip(req.rerun_requirements_text)
    ELSE job.requirements_md

\* The response; rerun_resets tells whether the job was reset before it.
rerun_estimate_response(job_id, req) ==
    LET job == get_job(job_id)
    IN  IF job = None THEN Detail(404, "Job not found")
        ELSE IF ~Rerunnable(job)
        THEN Detail(409, "Cannot re-run a job that is still running")
        ELSE IF ~RerunInputsReadable(job, req) THEN Detail(500, "AttributeError")
        \* job.repo_summary is read while the add_task arguments are built
        ELSE IF ~HasAttr(job, "repo_summary") THEN Detail(500, "AttributeError")
        ELSE Ok

rerun_resets(job_id, req) ==
    /\ get_job(job_id) # None
    /\ Rerunnable(get_job(job_id))
    /\ RerunInputsReadable(get_job(job_id), req)

rerun_estimate(job_id, req) ==
    LET job == get_job(job_id)
        manday_cost == IF job.financials # None THEN job.financials.manday_cost ELSE 500
        currency == IF job.financials # None THEN job.financials.currency ELSE "EUR"
    IN  IF ~rerun_resets(job_id, req)
        THEN UNCHANGED vars
        ELSE /\ jobs' = update_job(jobs, job_id,
                           RerunUpdate(rerun_model_md(job, req), rerun_requirements_md(job, req)))
             /\ tasks' = IF rerun_estimate_response(job_id, req) = Ok
                         THEN add_task(tasks, job_id,
                                  RerunFrame(rerun_requirements_md(job, req),
                                             rerun_model_md(job, req), manday_cost,
                                             currency, job.repo_summary))
                         ELSE tasks
             /\ UNCHANGED <<files, saves, nextSave, clock, origin, claude, rollup>>

---------------------------------------------------------------------------
(* Chat refinement (claude_client.chat_with_claude, routes.chat). *)

\* f"{x:.1f}" of a manday count.
Fmt1(md) ==
    LET tenths == (md + 50) \div 100
    IN  <<ToString(tenths \div 10), ".", ToString(tenths % 10)>>

\* abs(a - b) > 0.01
Differs(a, b) == (IF a > b THEN a - b ELSE b - a) > 10

DiffSatellites ==
    <<<<"PM & Orchestration", "pm_orchestration">>,
      <<"Solution Architecture", "solution_architecture">>,
      <<"Cybersecurity", "cybersecurity">>,
      <<"Digital Experience", "digital_experience">>,
      <<"Quality Assurance", "quality_assurance">>>>

SatLine(label, o, n) ==
    IF o.active # n.active
    THEN <<<<"- **", label, "**: ", IF n.active THEN "activated" ELSE "deactivated">>>>
    ELSE IF o.active /\ n.active /\ Differs(o.total_mandays, n.total_mandays)
    THEN << <<"- **", label, "**: ">> \o Fmt1(o.total_mandays) \o <<" -> ">>
            \o Fmt1(n.total_mandays) \o <<" mandays">> >>
    ELSE <<>>

RECURSIVE SatLines(_, _, _)
SatLines(i, old, new) ==
    IF i > Len(DiffSatellites) THEN <<>>
    ELSE SatLine(DiffSatellites[i][1], old.satellites[DiffSatellites[i][2]],
                 new.satellites[DiffSatellites[i][2]])
         \o SatLines(i + 1, old, new)

\* The lines of the diff summary, one token sequence each.
DiffLines(old, new) ==
    (IF Differs(old.core.total_mandays, new.core.total_mandays)
     THEN << <<"- **Core**: ">> \o Fmt1(old.core.total_mandays) \o <<" -> ">>
             \o Fmt1(new.core.total_mandays) \o <<" mandays">> >>
     ELSE <<>>)
    \o SatLines(1, old, new)

RECURSIVE JoinLines(_)
JoinLines(lines) ==
    IF lines = <<>> THEN <<>>
    ELSE IF Len(lines) = 1 THEN lines[1]
    ELSE lines[1] \o <<"\n">> \o JoinLines(Tail(lines))

_diff_estimates(old, new) ==
    IF DiffLines(old, new) = <<>>
    THEN <<"I've applied the requested changes to the estimate.">>
    ELSE <<"Done. Here's what changed:", "\n", "\n">> \o JoinLines(DiffLines(old, new))

\* What client.messages.create returns to chat_with_claude: the concatenated
\* text blocks and what its tool_use blocks amount to ("none": there is none,
\* "valid": the last one that validates carries `estimate`, "invalid": none
\* of them validates), or an exception.
ChatOutcome(raised, text, tool, estimate) ==
    [raised |-> raised, text |-> text, tool |-> tool, estimate |-> estimate]

ChatOutcomes ==
    {ChatOutcome(TRUE, <<>>, "none", None),
     ChatOutcome(FALSE, <<"Because.">>, "none", None),
     ChatOutcome(FALSE, <<>>, "invalid", None)}
    \cup {ChatOutcome(FALSE, t, "valid", e) : t \in {<<>>, <<"Updated.">>}, e \in Estimates}

\* str.strip() on a text: leading and trailing whitespace tokens removed.
Whitespace == {" ", "\n", "\r", "\t"}

RECURSIVE LStrip(_)
LStrip(t) ==
    IF t = <<>> THEN <<>>
    ELSE IF Head(t) \in Whitespace THEN LStrip(Tail(t)) ELSE t

RECURSIVE RStrip(_)
RStrip(t) ==
    IF t = <<>> THEN <<>>
    ELSE IF t[Len(t)] \in Whitespace THEN RStrip(SubSeq(t, 1, Len(t) - 1)) ELSE t

StripText(t) == RStrip(LStrip(t))

\* A chat_with_claude that summarizes whenever a tool call came without prose,
\* validated or not.
chat_summarizes_unvalidated(out, current_estimate) ==
    LET updated == IF out.tool = "valid" THEN out.estimate ELSE None
    IN  <<StripText(IF out.tool # "none" /\ StripText(out.text) = <<>>
                    THEN _diff_estimates(current_estimate,
                            IF updated # None THEN updated ELSE current_estimate)
                    ELSE out.text),
          updated>>

\* chat_with_claude: <<reply, updated_estimate>>
chat_with_claude(out, current_estimate) ==
    LET updated == IF out.tool = "valid" THEN out.estimate ELSE None
    IN  <<StripText(IF updated # None /\ StripText(out.text) = <<>>
                    THEN _diff_estimates(current_estimate, updated)
                    ELSE out.text),
          updated>>

ChatMessages == {"why?"}

\* The response chat gives before it calls the LLM, Ok when it goes on to.
chat_guard(job_id) ==
    LET job == get_job(job_id)
    IN  IF job = None THEN Detail(404, "Job not found")
        ELSE IF job.status # "done" THEN Detail(409, "Estimation not complete yet")
        ELSE IF ~HasAttr(job, "estimate_result") THEN Detail(500, "AttributeError")
        ELSE IF job.estimate_result = None
        THEN Detail(500, "Estimate data not available for chat")
        \* job.chat_history is read while the call's arguments are built
        ELSE IF ~HasAttr(job, "chat_history") THEN Detail(500, "AttributeError")
        ELSE Ok

chat(job_id, message) ==
    LET job == get_job(job_id)
    IN  IF chat_guard(job_id) # Ok
        THEN UNCHANGED vars
        ELSE \E out \in ChatOutcomes :
             LET r == chat_with_claude(out, job.estimate_result)
                 history == job.chat_history
                              \o <<[role |-> "user", content |-> <<message>>],
                                   [role |-> "assistant", content |-> r[1]]>>
                 new_financials == _compute_financials(r[2], job.financials.manday_cost,
                                                       job.financials.currency)
             IN  IF out.raised
                 THEN UNCHANGED vars
                 ELSE IF r[2] = None
                 THEN /\ jobs' = update_job(jobs, job_id, [chat_history |-> history])
                      /\ UNCHANGED <<tasks, files, saves, nextSave, clock, origin,
                                     claude, rollup>>
                 ELSE /\ files' = generate_report(files, job_id, r[2], new_financials, <<>>)
                      /\ jobs' = update_job(jobs, job_id,
                                    [chat_history |-> history, estimate_result |-> r[2],
                                     financials |-> new_financials])
                      /\ UNCHANGED <<tasks, saves, nextSave, clock, origin, claude, rollup>>

---------------------------------------------------------------------------
(* Requests served at the same time.  rerun_estimate is a coroutine of the *)
(* event loop: it runs without interruption by another coroutine except at *)
(* its awaits, the reads of the uploaded files, which lie between the      *)
(* status check and the reset.  chat is a plain function, which FastAPI    *)
(* runs in a thread of its pool: its statements interleave with everything *)
(* else, also with the setattr calls of one update_job.  `claude` holds    *)
(* the requests being served, each with its position and its locals.       *)

RequestIds == {"a", "b"}

NoRequest ==
    [handler |-> "none", job_id |-> 0, pc |-> "idle", form |-> NoOverrides,
     message |-> "", manday_cost |-> 0, currency |-> "", reply |-> <<>>,
     updated |-> None, financials |-> None, calls |-> 0, code |-> 0, detail |-> ""]

Arrived(handler, job_id, form, message) ==
    [NoRequest EXCEPT !.handler = handler, !.job_id = job_id, !.form = form,
                      !.message = message]

\* The request is answered: with `code`, and `detail` when it raised.
Answered(request, response) ==
    [request EXCEPT !.pc = "answered", !.code = response.code, !.detail = response.detail]

\* Whether the form carries a file the handler awaits the read of.
AwaitsUpload(form) == form.rerun_model # "" \/ form.rerun_requirements_file # ""

\* No coroutine is in the middle of its update_job call.
LoopFree == \A r \in RequestIds : claude[r].pc # "resetting"

\* The keywords of the reset that precede chat_history, the last one.
ResetFields(kwargs) == [k \in DOMAIN kwargs \ {"chat_history"} |-> kwargs[k]]

\* A job object on which every attribute reads as its default.
AttributeDefaults(job) == TRUE

\* cached_repo_summary=job.repo_summary
RepoSummaryReadable(job) == HasAttr(job, "repo_summary")

\* Lines 280-306 up to the last setattr of update_job.
rerun_reset(r, request) ==
    LET job == jobs[request.job_id]
        form == request.form
    IN  IF ~RerunInputsReadable(job, form)
        THEN /\ claude' = [claude EXCEPT ![r] =
                              Answered(request, Detail(500, "AttributeError"))]
             /\ UNCHANGED jobs
        ELSE /\ jobs' = update_job(jobs, request.job_id,
                           ResetFields(RerunUpdate(rerun_model_md(job, form),
                                                   rerun_requirements_md(job, form))))
             /\ claude' = [claude EXCEPT ![r] =
                  [request EXCEPT
                      !.pc = "resetting",
                      !.manday_cost = IF job.financials # None
                                      THEN job.financials.manday_cost ELSE 500,
                      !.currency = IF job.financials # None
                                   THEN job.financials.currency ELSE "EUR"]]

\* Lines 270-275; a request without uploads goes on to the reset at once.
rerun_begin(r, job_id, form) ==
    LET job == get_job(job_id)
        request == Arrived("rerun", job_id, form, "")
    IN  /\ claude[r].handler = "none"
        /\ LoopFree
        /\ IF job = None
           THEN /\ claude' = [claude EXCEPT ![r] =
                                 Answered(request, Detail(404, "Job not found"))]
                /\ UNCHANGED jobs
           ELSE IF ~Rerunnable(job)
           THEN /\ claude' = [claude EXCEPT ![r] =
                                 Answered(request,
                                    Detail(409, "Cannot re-run a job that is still running"))]
                /\ UNCHANGED jobs
           ELSE IF AwaitsUpload(form)
           THEN /\ claude' = [claude EXCEPT ![r] = [request EXCEPT !.pc = "reading"]]
                /\ UNCHANGED jobs
           ELSE rerun_reset(r, request)
        /\ UNCHANGED <<tasks, files, saves, nextSave, clock, origin, rollup>>

\* The coroutine goes on after its awaits.
rerun_resume(r) ==
    /\ claude[r].handler = "rerun"
    /\ claude[r].pc = "reading"
    /\ LoopFree
    /\ rerun_reset(r, claude[r])
    /\ UNCHANGED <<tasks, files, saves, nextSave, clock, origin, rollup>>

\* The last setattr of the reset, chat_history=[], then lines 308-322.
rerun_finish(r) ==
    LET request == claude[r]
        job_id == request.job_id
        reset == update_job(jobs, job_id, [chat_history |-> <<>>])
        job == reset[job_id]
    IN  /\ request.handler = "rerun"
        /\ request.pc = "resetting"
        /\ jobs' = reset
        /\ IF ~RepoSummaryReadable(job)
           THEN /\ claude' = [claude EXCEPT ![r] =
                                 Answered(request, Detail(500, "AttributeError"))]
                /\ UNCHANGED tasks
           ELSE /\ tasks' = add_task(tasks, job_id,
                               RerunFrame(job.requirements_md, job.model_md,
                                          request.manday_cost, request.currency,
                                          job.repo_summary))
                /\ claude' = [claude EXCEPT ![r] =
                                 [request EXCEPT !.pc = "scheduled", !.code = 200]]
        /\ UNCHANGED <<files, saves, nextSave, clock, origin, rollup>>

\* Lines 328-334 of chat.
chat_admission(job_id) ==
    LET job == get_job(job_id)
    IN  IF job = None THEN Detail(404, "Job not found")
        ELSE IF job.status # "done" THEN Detail(409, "Estimation not complete yet")
        ELSE IF ~HasAttr(job, "estimate_result") THEN Detail(500, "AttributeError")
        ELSE IF job.estimate_result = None
        THEN Detail(500, "Estimate data not available for chat")
        ELSE Ok

chat_admit(r, job_id, message) ==
    LET request == Arrived("chat", job_id, NoOverrides, message)
    IN  /\ claude[r].handler = "none"
        /\ claude' = [claude EXCEPT ![r] =
                         IF chat_admission(job_id) # Ok
                         THEN Answered(request, chat_admission(job_id))
                         ELSE [request EXCEPT !.pc = "admitted"]]
        /\ UNCHANGED <<jobs, tasks, files, saves, nextSave, clock, origin, rollup>>

\* A prompt that can be built from any value, None included.
AnyEstimate(current_estimate) == TRUE

\* {current_estimate.model_dump_json(indent=2)} in the system prompt
PromptReadable(current_estimate) == current_estimate # None

\* What the LLM answers a chat with: prose, or prose and a replacement.
RaceOutcomes ==
    {ChatOutcome(TRUE, <<>>, "none", None),
     ChatOutcome(FALSE, <<"Because.">>, "none", None),
     ChatOutcome(FALSE, <<"Updated.">>, "valid", EstAlpha),
     ChatOutcome(FALSE, <<"Updated.">>, "valid", EstBeta)}

\* Lines 338-343: the arguments are read off the job, then the LLM is called.
chat_call(r) ==
    LET request == claude[r]
        job == jobs[request.job_id]
    IN  /\ UNCHANGED <<jobs, files>>
        /\ IF ~HasAttr(job, "chat_history")
           THEN claude' = [claude EXCEPT ![r] =
                    Answered(request, Detail(500, "AttributeError: chat_history"))]
           ELSE IF ~PromptReadable(job.estimate_result)
           THEN claude' = [claude EXCEPT ![r] =
                    Answered(request, Detail(500, "AttributeError: model_dump_json"))]
           ELSE \E out \in RaceOutcomes :
                  claude' = [claude EXCEPT ![r] =
                     IF out.raised
                     THEN Answered([request EXCEPT !.calls = @ + 1],
                                   Detail(500, "APIError"))
                     ELSE [request EXCEPT
                              !.pc = "replied",
                              !.calls = @ + 1,
                              !.reply = chat_with_claude(out, job.estimate_result)[1],
                              !.updated = chat_with_claude(out, job.estimate_result)[2]]]

\* Lines 346-347: both messages are appended to the list the job holds now.
chat_append(r) ==
    LET request == claude[r]
        job == jobs[request.job_id]
    IN  /\ jobs' = update_job(jobs, request.job_id,
                      [chat_history |-> job.chat_history
                          \o <<[role |-> "user", content |-> <<request.message>>],
                               [role |-> "assistant", content |-> request.reply]>>])
        /\ claude' = [claude EXCEPT ![r] =
                         IF request.updated = None THEN Answered(request, Ok)
                         ELSE [request EXCEPT !.pc = "appended"]]
        /\ UNCHANGED files

\* Lines 350-361: the rollup at the job's rate, then the report file.
chat_report(r) ==
    LET request == claude[r]
        job == jobs[request.job_id]
        new_financials == _compute_financials(request.updated, job.financials.manday_cost,
                                              job.financials.currency)
    IN  /\ UNCHANGED jobs
        /\ IF job.financials = None
           THEN /\ claude' = [claude EXCEPT ![r] =
                       Answered(request, Detail(500, "AttributeError: manday_cost"))]
                /\ UNCHANGED files
           ELSE /\ files' = generate_report(files, request.job_id, request.updated,
                                            new_financials, <<>>)
                /\ claude' = [claude EXCEPT ![r] =
                       [request EXCEPT !.pc = "written", !.financials = new_financials]]

\* Line 362: update_job(job_id, estimate_result=..., financials=...)
chat_update(r) ==
    LET request == claude[r]
    IN  /\ jobs' = update_job(jobs, request.job_id,
                      [estimate_result |-> request.updated,
                       financials |-> request.financials])
        /\ claude' = [claude EXCEPT ![r] = Answered(request, Ok)]
        /\ UNCHANGED files

\* The thread that serves the request takes its next step.
chat_resume(r) ==
    /\ claude[r].handler = "chat"
    /\ claude[r].pc \in {"admitted", "replied", "appended", "written"}
    /\ IF claude[r].pc = "admitted" THEN chat_call(r)
       ELSE IF claude[r].pc = "replied" THEN chat_append(r)
       ELSE IF claude[r].pc = "appended" THEN chat_report(r)
       ELSE chat_update(r)
    /\ UNCHANGED <<tasks, saves, nextSave, clock, origin, rollup>>

---------------------------------------------------------------------------
(* Schema validation of a tool input (EstimateResult.model_validate,       *)
(* app/models/estimate.py).  Mandays are counted in thousandths, the       *)
(* scalability multiplier in tenths, weeks in whole weeks.                 *)

\* JSON values found where the schema wants a number: a number without a
\* fractional part, a number with one (n its integral part), a string that
\* is not numeric.
JsonNumber(n) == [json |-> "number", n |-> n, integral |-> TRUE]
JsonFraction(n) == [json |-> "number", n |-> n, integral |-> FALSE]
JsonString == [json |-> "string", n |-> 0, integral |-> FALSE]

Spike(mandays) == [description |-> "spike", mandays |-> mandays]

CoreEstimate(base_fcu_mandays, scalability_multiplier, spikes, total_mandays) ==
    [scalability_multiplier |-> scalability_multiplier,
     spikes |-> spikes,
     base_fcu_mandays |-> base_fcu_mandays,
     total_mandays |-> total_mandays]

RoleEstimate(role, mandays) == [role |-> role, mandays |-> mandays]

PhaseRole(role, mandays) == [role |-> role, mandays |-> mandays]

PlanPhase(name, start_week, end_week, roles) ==
    [name |-> name, start_week |-> start_week, end_week |-> end_week, roles |-> roles]

\* A tool input with every field of the tool's schema, and one without the
\* two fields the model class declares with a default.
ToolInput(core, roles, plan_phases) ==
    [project_name |-> "Beta", project_summary |-> <<"plain">>, core |-> core,
     satellites |-> EstBeta.satellites, roles |-> roles, plan_phases |-> plan_phases]

ToolInputWithoutPlan(core) ==
    [project_name |-> "Beta", project_summary |-> <<"plain">>, core |-> core,
     satellites |-> EstBeta.satellites]

\* float fields take any number, int fields a number without a fractional
\* part; no field has a validator or a bound.
IsFloat(v) == v.json = "number"
IsInt(v) == v.json = "number" /\ v.integral

ValidCore(core) ==
    /\ IsFloat(core.scalability_multiplier)
    /\ IsFloat(core.base_fcu_mandays)
    /\ IsFloat(core.total_mandays)
    /\ \A i \in 1..Len(core.spikes) : IsFloat(core.spikes[i].mandays)

ValidRoles(roles) == \A i \in 1..Len(roles) : IsFloat(roles[i].mandays)

ValidPhases(plan_phases) ==
    \A i \in 1..Len(plan_phases) :
        /\ IsInt(plan_phases[i].start_week)
        /\ IsInt(plan_phases[i].end_week)
        /\ ValidRoles(plan_phases[i].roles)

\* The parsed lists: every number taken out of its JSON value.
ParsedRoles(roles) ==
    [i \in 1..Len(roles) |-> [role |-> roles[i].role, mandays |-> roles[i].mandays.n]]

ParsedPhases(plan_phases) ==
    [i \in 1..Len(plan_phases) |->
        PlanPhase(plan_phases[i].name, plan_phases[i].start_week.n,
                  plan_phases[i].end_week.n, ParsedRoles(plan_phases[i].roles))]

\* EstimateResult.model_validate(raw_input): the estimate, or ValidationError.
model_validate(raw_input) ==
    LET roles == IF "roles" \in DOMAIN raw_input THEN raw_input.roles ELSE <<>>
        plan_phases == IF "plan_phases" \in DOMAIN raw_input
                       THEN raw_input.plan_phases ELSE <<>>
        core == raw_input.core
    IN  IF ValidCore(core) /\ ValidRoles(roles) /\ ValidPhases(plan_phases)
        THEN [ok |-> TRUE,
              value |-> [project_name |-> raw_input.project_name,
                         project_summary |-> raw_input.project_summary,
                         core |-> CoreEstimate(core.base_fcu_mandays.n,
                                     core.scalability_multiplier.n,
                                     [i \in 1..Len(core.spikes) |->
                                         Spike(core.spikes[i].mandays.n)],
                                     core.total_mandays.n),
                         satellites |-> raw_input.satellites,
                         roles |-> ParsedRoles(roles),
                         plan_phases |-> ParsedPhases(plan_phases)]]
        ELSE [ok |-> FALSE, value |-> ValidationError]

\* The tolerances of the consistency checks: 5 % relative, 0.5 manday absolute.
REL_TOL_PERCENT == 5
ABS_TOL == 500

Abs(x) == IF x < 0 THEN -x ELSE x

\* math.isclose(a, b, rel_tol=REL_TOL, abs_tol=ABS_TOL)
is_close(a, b) ==
    LET larger == IF Abs(a) > Abs(b) THEN Abs(a) ELSE Abs(b)
    IN  \/ 100 * Abs(a - b) <= REL_TOL_PERCENT * larger
        \/ Abs(a - b) <= ABS_TOL

\* sum(x.mandays for x in xs)
RECURSIVE SumMandays(_)
SumMandays(xs) == IF xs = <<>> THEN 0 ELSE Head(xs).mandays + SumMandays(Tail(xs))

\* Core plus every active satellite.
grand_total_mandays(result) ==
    LET active == {n \in SatelliteNames : result.satellites[n].active}
        RECURSIVE Total(_)
        Total(ns) == IF ns = {} THEN 0
                     ELSE LET n == CHOOSE x \in ns : TRUE
                          IN  result.satellites[n].total_mandays + Total(ns \ {n})
    IN  result.core.total_mandays + Total(active)

\* The mandays the phases give to a role.
RECURSIVE PhaseSum(_, _)
PhaseSum(plan_phases, role) ==
    IF plan_phases = <<>> THEN 0
    ELSE SumMandays(SelectSeq(Head(plan_phases).roles, LAMBDA pr : pr.role = role))
         + PhaseSum(Tail(plan_phases), role)

---------------------------------------------------------------------------
(* The pure functions followed on their own: one call_claude invocation    *)
(* attempt by attempt, and one application of the financial rollup.        *)

Idle == [idle |-> TRUE]

\* `claude`: the call's locals and the outcomes of its attempts so far.
claude_attempt ==
    /\ claude # Idle
    /\ claude.c.pc = "attempt"
    /\ \E out \in AttemptOutcomes :
          claude' = [claude EXCEPT !.c = call_claude_attempt(@, out),
                                   !.outs = Append(@, out)]
    /\ UNCHANGED <<jobs, tasks, files, saves, nextSave, clock, origin, rollup>>


\* The estimates the rollup is applied to: any activation of the six
\* satellites, over three core sizes, one of them not a whole number of
\* hundredths.
RollupEstimates ==
    {EstimateResult("P", <<"s">>, core,
        Satellites(Sat(a[1], 2000), Sat(a[2], 5000), Sat(a[3], 3000),
                   Sat(a[4], 1500), Sat(a[5], 2500), Sat(a[6], 1250))) :
        core \in {10000, 10003, 20500}, a \in [1..6 -> BOOLEAN]}

compute_financials ==
    /\ rollup # Idle
    /\ rollup.output = None
    /\ rollup' = [rollup EXCEPT !.output =
                     _compute_financials(rollup.estimate, rollup.manday_cost,
                                         rollup.currency)]
    /\ UNCHANGED <<jobs, tasks, files, saves, nextSave, clock, origin, claude>>

---------------------------------------------------------------------------
(* The saves a previous lifetime of the process can have left on disk: the *)
(* save store survives a restart, the job store does not.                  *)

StoredSave(save_id, status, estimate) ==
    LET fin == _compute_financials(estimate, 800, "USD")
    IN  JsonFile(SaveData(save_id, estimate.project_name, status, 0, 0,
                          "R-saved", "M-saved",
                          ReadText(WriteText(Render(estimate, fin, <<>>))),
                          estimate, fin), 0)

EmptyStore == [s \in {} |-> None]

InitialStores ==
    {EmptyStore}
    \cup {[s \in {1} |-> StoredSave(s, "draft", EstBeta)],
          [s \in {1} |-> StoredSave(s, "final", EstAlpha)]}

InitStores(stores) ==
    /\ jobs = [j \in {} |-> None]
    /\ tasks = [j \in {} |-> None]
    /\ files = [j \in {} |-> <<>>]
    /\ saves \in stores
    /\ nextSave = Cardinality(DOMAIN saves \cap SaveIds) + 1
    /\ clock = 0
    /\ origin = [j \in {} |-> ""]

---------------------------------------------------------------------------
(* Spec: the jobs of the create-estimation endpoint, their background runs *)
(* and every handler that takes a job id, over a save store left by an     *)
(* earlier lifetime.                                                       *)

Init ==
    /\ InitStores({[s \in {1} |-> StoredSave(s, "draft", EstAlpha)]})
    /\ claude = Idle
    /\ rollup = Idle

Next ==
    \/ \E req \in CreateRequests : create_estimate(req)
    \/ \E j \in JobIds : run_estimation(j)
    \/ \E j \in JobIds : get_status(j)
    \/ \E j \in JobIds : get_report(j)
    \/ \E j \in JobIds : get_job_plan(j)
    \/ \E j \in JobIds, req \in RerunRequests : rerun_estimate(j, req)
    \/ \E j \in JobIds, m \in ChatMessages : chat(j, m)
    \/ \E j \in JobIds, name \in NameInputs : create_save(j, name)
    \/ \E s \in SaveIds, j \in JobIds : update_save(s, j)

Spec == Init /\ [][Next]_vars

(* SpecSaves: the save store, the jobs opened from saves and every handler *)
(* that takes a save id or the id of such a job.                           *)

InitSaves ==
    /\ InitStores(InitialStores)
    /\ claude = Idle
    /\ rollup = Idle

NextSaves ==
    \/ \E s \in SaveIds : open_save(s)
    \/ \E s \in SaveIds : get_save(s)
    \/ \E s \in SaveIds : finalize_save(s)
    \/ \E s \in SaveIds : delete_save(s)
    \/ \E j \in JobIds, name \in NameInputs : create_save(j, name)
    \/ \E s \in SaveIds, j \in JobIds : update_save(s, j)
    \/ \E j \in JobIds : get_status(j)
    \/ \E j \in JobIds : get_report(j)
    \/ \E j \in JobIds : get_job_plan(j)
    \/ \E j \in JobIds, req \in RerunRequests : rerun_estimate(j, req)
    \/ \E j \in JobIds, m \in ChatMessages : chat(j, m)

SpecSaves == InitSaves /\ [][NextSaves]_vars

(* SpecFetch: the run of the first job created with a repository URL,      *)
(* against each remote.                                                    *)

FetchRequests ==
    {EstimateRequest("", " R-text ", "", url, 500, "EUR") : url \in {GoodUrl, BadUrl}}

\* `claude`: what the remote does during the run.
InitFetch ==
    /\ InitStores({EmptyStore})
    /\ claude \in {[env |-> env] : env \in FetchEnvs}
    /\ rollup = Idle

run_fetch_remote(j) ==
    /\ AtPc(j, "fetch")
    /\ run_fetch_from(j, {fetch_repo_summary(tasks[j].github_url, claude.env)})

NextFetch ==
    \/ \E req \in FetchRequests : DOMAIN jobs = {} /\ create_estimate(req)
    \/ \E j \in JobIds : run_start(j)
    \/ \E j \in JobIds : run_fetch_remote(j)
    \/ \E j \in JobIds : run_call_claude(j)
    \/ \E j \in JobIds : run_financials(j)
    \/ \E j \in JobIds : run_report(j)
    \/ \E j \in JobIds : run_done(j)
    \/ \E j \in JobIds : run_except(j)
    \/ \E j \in JobIds : get_status(j)

SpecFetch == InitFetch /\ [][NextFetch]_vars

(* SpecUpdate: jobs opened from the saves of a store that holds saves of   *)
(* different estimates, and the updates of those saves from the jobs.      *)

\* A second save, of another estimate and other input texts.
OtherSave(status) ==
    LET file == StoredSave(2, status, EstAlpha)
    IN  [file EXCEPT !.json.requirements_md = "R-other", !.json.model_md = "M-other"]

UpdateStores ==
    {[s \in {1} |-> StoredSave(s, "draft", EstBeta)]}
    \cup {[s \in {1, 2} |-> IF s = 1 THEN StoredSave(s, "draft", EstBeta)
                                     ELSE OtherSave(status)] :
             status \in {"draft", "final"}}

InitUpdate ==
    /\ InitStores(UpdateStores)
    /\ claude = Idle
    /\ rollup = Idle

NextUpdate ==
    \/ \E s \in SaveIds : open_save(s)
    \/ \E s \in SaveIds, j \in JobIds : update_save(s, j)
    \/ \E s \in SaveIds : finalize_save(s)
    \/ \E s \in SaveIds : get_save(s)

SpecUpdate == InitUpdate /\ [][NextUpdate]_vars

(* SpecDigest: one digest built from a listing. *)

\* The blobs a listing is made of: documentation, source, configuration,
\* a file without extension, a dependency, a file named like a skipped
\* directory; two of them are large.
ListedBlobs ==
    {Blob(Path(<<"src">>, <<"app", ".py">>, 10), 30000),
     Blob(Path(<<>>, <<"README", ".md">>, 9), 50000),
     Blob(Path(<<"node_modules", "lib">>, <<"index", ".js">>, 25), 100),
     Blob(Path(<<>>, <<"config", ".yaml">>, 11), 79900),
     Blob(Path(<<>>, <<"LICENSE">>, 7), 100),
     Blob(Path(<<"docs">>, <<"guide", ".md">>, 13), 100),
     Blob(Path(<<>>, <<"build">>, 5), 100),
     Blob(Path(<<>>, <<".env", ".example">>, 12), 100)}

MaxListing == 3

Listings ==
    {l \in UNION {[1..n -> ListedBlobs] : n \in 0..MaxListing} :
        \A i, k \in 1..Len(l) : i # k => l[i] # l[k]}

\* `claude`: the listing, the failing requests and, once built, the digest.
summarize_repo ==
    /\ claude # Idle
    /\ claude.digest = None
    /\ claude' = [claude EXCEPT !.digest = summarize_listing(claude.listing, claude.failing)]
    /\ UNCHANGED <<jobs, tasks, files, saves, nextSave, clock, origin, rollup>>

InitDigest ==
    /\ InitStores({EmptyStore})
    /\ claude \in {[listing |-> l, failing |-> f, digest |-> None] :
                      l \in Listings,
                      f \in {{}, {Path(<<"docs">>, <<"guide", ".md">>, 13)}}}
    /\ rollup = Idle

SpecDigest == InitDigest /\ [][summarize_repo]_vars

(* SpecFile: the content kept of one fetched file. *)

MAX_FILE_LINES == 200

MaxLines == 203

\* The body of a raw-file response: `n` lines as str.splitlines counts
\* them, ended by `eol`, the last one ended or not.
ResponseText(n, eol, terminated) == [n |-> n, eol |-> eol, terminated |-> terminated]

ResponseTexts ==
    {ResponseText(n, eol, terminated) :
        n \in 0..MaxLines, eol \in {"\n", "\r\n"}, terminated \in BOOLEAN}

\* Line i of the file, without its line end.
FileLine(i) == [kind |-> "line", no |-> i]

TruncationMarker == [kind |-> "marker", no |-> MAX_FILE_LINES]

\* str.splitlines: the lines without their ends; a final line end starts
\* no further line.
splitlines(text) == [i \in 1..text.n |-> FileLine(i)]

\* "\n".join(lines)
JoinContent(lines) == [lines |-> lines, eol |-> "\n", terminated |-> FALSE]

\* A cap that also cuts a file of exactly MAX_FILE_LINES lines.
fetch_marks_full_file(text) ==
    LET lines == splitlines(text)
    IN  JoinContent(IF Len(lines) >= MAX_FILE_LINES
                  THEN Append(SubSeq(lines, 1, MAX_FILE_LINES), TruncationMarker)
                  ELSE lines)

_fetch_file_content(text) ==
    LET lines == splitlines(text)
    IN  JoinContent(IF Len(lines) > MAX_FILE_LINES
                  THEN Append(SubSeq(lines, 1, MAX_FILE_LINES), TruncationMarker)
                  ELSE lines)

\* `claude`: the response body and, once fetched, the content kept of it.
fetch_file ==
    /\ claude # Idle
    /\ claude.content = None
    /\ claude' = [claude EXCEPT !.content = _fetch_file_content(claude.text)]
    /\ UNCHANGED <<jobs, tasks, files, saves, nextSave, clock, origin, rollup>>

InitFile ==
    /\ InitStores({EmptyStore})
    /\ claude \in {[text |-> t, content |-> None] : t \in ResponseTexts}
    /\ rollup = Idle

SpecFile == InitFile /\ [][fetch_file]_vars

(* SpecList: the listing of a save directory that holds a file which is   *)
(* no save, while saves are created, updated, finalized and deleted.       *)

\* The file 0.json, left in the directory by something else.
GarbledFile == [json |-> Garbled, mtime |-> 0]

ListStores ==
    {[s \in {0} |-> GarbledFile],
     [s \in {0, 1} |-> IF s = 0 THEN GarbledFile ELSE StoredSave(s, "draft", EstBeta)],
     [s \in {0, 1, 2} |-> IF s = 0 THEN GarbledFile
                          ELSE IF s = 1 THEN StoredSave(s, "draft", EstBeta)
                          ELSE StoredSave(s, "final", EstAlpha)]}

InitList ==
    /\ InitStores(ListStores)
    /\ claude = Idle
    /\ rollup = Idle

NextList ==
    \/ \E s \in SaveIds : open_save(s)
    \/ \E j \in JobIds, name \in NameInputs : create_save(j, name)
    \/ \E s \in SaveIds, j \in JobIds : update_save(s, j)
    \/ \E s \in SaveIds : finalize_save(s)
    \/ \E s \in SaveIds : delete_save(s)
    \/ list_saves

SpecList == InitList /\ [][NextList]_vars

(* SpecLive: the jobs of the create endpoint and the jobs opened from a    *)
(* save, their runs and their re-runs.  Starlette runs every task handed   *)
(* to BackgroundTasks once the response is sent, and every LLM call and    *)
(* repository request returns or raises, so a run that can take a step     *)
(* eventually takes it: weak fairness of every job's run.                  *)

LiveRequests ==
    {EstimateRequest("", " R-text ", "", "", 500, "EUR"),
     EstimateRequest("R-file", " R-text ", "M-upload", GoodUrl, 800, "USD")}

NextLive ==
    \/ \E req \in LiveRequests : create_estimate(req)
    \/ \E j \in JobIds : run_estimation(j)
    \/ \E s \in SaveIds : open_save(s)
    \/ \E j \in JobIds, req \in RerunRequests : rerun_estimate(j, req)
    \/ \E j \in JobIds : get_status(j)

SpecLive ==
    /\ Init
    /\ [][NextLive]_vars
    /\ \A j \in JobIds : WF_vars(run_estimation(j))

(* SpecRace: two requests, re-runs or chats, served at the same time on    *)
(* the jobs of the create endpoint and the jobs opened from a save.        *)

InitRace ==
    /\ InitStores({[s \in {1} |-> StoredSave(s, "draft", EstAlpha)]})
    /\ claude = [r \in RequestIds |-> NoRequest]
    /\ rollup = Idle

RaceCreate == EstimateRequest("", " R-text ", "", "", 500, "EUR")

RaceReruns == {NoOverrides, RerunRequest("M-rerun", "", " R-text ")}

\* A job of the given origin exists already.
HasJobFrom(how) == \E j \in DOMAIN origin : origin[j] = how

\* The second request arrives while the first one is being served or was
\* answered, for the same job.
MayArrive(r, job_id) ==
    r = "b" => claude["a"].handler # "none" /\ claude["a"].job_id = job_id

NextRace ==
    \/ ~HasJobFrom("create") /\ create_estimate(RaceCreate)
    \/ \E j \in JobIds : run_start(j)
    \/ \E j \in JobIds : run_call_claude(j)
    \/ \E j \in JobIds : run_financials(j)
    \/ \E j \in JobIds : run_report(j)
    \/ \E j \in JobIds : run_done(j)
    \/ \E j \in JobIds : run_except(j)
    \/ \E s \in SaveIds : ~HasJobFrom("open") /\ open_save(s)
    \/ \E r \in RequestIds, j \in JobIds, form \in RaceReruns :
          MayArrive(r, j) /\ rerun_begin(r, j, form)
    \/ \E r \in RequestIds : rerun_resume(r)
    \/ \E r \in RequestIds : rerun_finish(r)
    \/ \E r \in RequestIds, j \in JobIds, m \in ChatMessages :
          MayArrive(r, j) /\ chat_admit(r, j, m)
    \/ \E r \in RequestIds : chat_resume(r)

SpecRace == InitRace /\ [][NextRace]_vars

(* SpecClaude: one call_claude invocation. *)

InitClaude ==
    /\ InitStores({EmptyStore})
    /\ claude \in {[c |-> CallFrame, outs |-> <<>>, prompt |-> Prompt(m, "R-text", d)] :
                      m \in {DefaultModel, "M-upload"}, d \in {<<>>, Digest}}
    /\ rollup = Idle

SpecClaude == InitClaude /\ [][claude_attempt]_vars

(* SpecChat: one chat_with_claude invocation. *)

\* The estimates a chat starts from and may be answered with: two core
\* sizes, PM mandays that stay, move by 0.005 or double, business analysis
\* and quality assurance on or off.
DiffEstimates ==
    {EstimateResult("D", <<"s">>, core,
        Satellites(Sat(TRUE, pm), Sat(ba, 5000), Sat(FALSE, 3000),
                   Sat(FALSE, 0), Sat(FALSE, 0), Sat(qa, 1250))) :
        core \in {10000, 20500}, pm \in {2000, 2005, 4000},
        ba \in BOOLEAN, qa \in BOOLEAN}

DiffChatOutcomes ==
    {ChatOutcome(FALSE, <<"Because.">>, "none", None),
     ChatOutcome(FALSE, <<>>, "invalid", None),
     ChatOutcome(FALSE, <<" ", "Sorry.", "\n">>, "invalid", None)}
    \cup {ChatOutcome(FALSE, t, "valid", e) :
             t \in {<<>>, <<" ", "\n">>, <<"Updated.", "\n">>}, e \in DiffEstimates}

\* `claude`: the arguments of the call and, once it returned, its result.
chat_reply ==
    /\ claude # Idle
    /\ claude.returned = None
    /\ claude' = [claude EXCEPT !.returned =
                     [reply |-> chat_with_claude(claude.out, claude.current_estimate)[1],
                      updated |-> chat_with_claude(claude.out, claude.current_estimate)[2]]]
    /\ UNCHANGED <<jobs, tasks, files, saves, nextSave, clock, origin, rollup>>

InitChat ==
    /\ InitStores({EmptyStore})
    /\ claude \in {[out |-> o, current_estimate |-> e, returned |-> None] :
                      o \in DiffChatOutcomes, e \in {EstAlpha, EstBeta}}
    /\ rollup = Idle

SpecChat == InitChat /\ [][chat_reply]_vars

(* SpecValidate: one EstimateResult.model_validate of a tool input. *)

\* The core figures the LLM may send: 8 mandays of base effort, multiplier
\* 1.0 or 1.3, no spike or one of 2 mandays, and a total that is the
\* formula's value, near it, far from it, or not a number.
RawCores ==
    {CoreEstimate(JsonNumber(8000), JsonNumber(mult), spikes, total) :
        mult \in {10, 13},
        spikes \in {<<>>, <<Spike(JsonNumber(2000))>>},
        total \in {JsonNumber(8000), JsonNumber(10400), JsonNumber(12400),
                   JsonNumber(12900), JsonNumber(20000), JsonString}}

RawRoles ==
    {<<>>,
     <<RoleEstimate("Backend Developer", JsonNumber(12000)),
       RoleEstimate("Project Manager", JsonNumber(10650))>>,
     <<RoleEstimate("Backend Developer", JsonNumber(12000))>>,
     <<RoleEstimate("Backend Developer", JsonString)>>}

RawPhases ==
    {<<>>,
     <<PlanPhase("Build", JsonNumber(1), JsonNumber(2),
                 <<PhaseRole("Backend Developer", JsonNumber(8000))>>),
       PlanPhase("Test", JsonNumber(2), JsonNumber(3),
                 <<PhaseRole("Backend Developer", JsonNumber(4000)),
                   PhaseRole("Tester", JsonNumber(1000))>>)>>,
     <<PlanPhase("Build", JsonNumber(0), JsonNumber(2),
                 <<PhaseRole("Backend Developer", JsonNumber(12000))>>)>>,
     <<PlanPhase("Build", JsonNumber(3), JsonNumber(2),
                 <<PhaseRole("Backend Developer", JsonNumber(5000))>>)>>,
     <<PlanPhase("Build", JsonFraction(2), JsonNumber(3),
                 <<PhaseRole("Backend Developer", JsonNumber(12000))>>)>>}

RawInputs ==
    {ToolInput(core, roles, plan_phases) :
        core \in RawCores, roles \in RawRoles, plan_phases \in RawPhases}
    \cup {ToolInputWithoutPlan(core) : core \in RawCores}

\* `claude`: the tool input and, once validated, the result.
validate_estimate ==
    /\ claude # Idle
    /\ claude.validated = None
    /\ claude' = [claude EXCEPT !.validated = model_validate(claude.raw_input)]
    /\ UNCHANGED <<jobs, tasks, files, saves, nextSave, clock, origin, rollup>>

InitValidate ==
    /\ InitStores({EmptyStore})
    /\ claude \in {[raw_input |-> raw, validated |-> None] : raw \in RawInputs}
    /\ rollup = Idle

SpecValidate == InitValidate /\ [][validate_estimate]_vars

(* SpecRollup: one application of _compute_financials. *)

InitRollup ==
    /\ InitStores({EmptyStore})
    /\ claude = Idle
    /\ rollup \in {[estimate |-> e, manday_cost |-> r[1], currency |-> r[2],
                    output |-> None] :
                      e \in RollupEstimates,
                      r \in {<<500, "EUR">>, <<499, "EUR">>, <<800, "USD">>}}

SpecRollup == InitRollup /\ [][compute_financials]_vars

---------------------------------------------------------------------------
(* Properties. *)

\* C1: the status of a job created by the create-estimation endpoint only
\* moves pending -> running, running -> done or running -> error; it leaves
\* done or error only in a re-run step, and then to pending.
C1_StatusTransitions ==
    [][\A j \in DOMAIN jobs : origin[j] = "create" =>
          \/ jobs'[j].status = jobs[j].status
          \/ <<jobs[j].status, jobs'[j].status>> \in
                {<<"pending", "running">>, <<"running", "done">>, <<"running", "error">>}
          \/ /\ jobs[j].status \in {"done", "error"}
             /\ jobs'[j].status = "pending"
             /\ \E req \in RerunRequests : rerun_estimate(j, req)]_vars

\* Two created jobs have run to their ends, one done and one in error.
C1_Witness ==
    \E j, k \in DOMAIN jobs :
        /\ origin[j] = "create" /\ jobs[j].status = "done"
        /\ origin[k] = "create" /\ jobs[k].status = "error"

\* C2: once a step of a run has raised, the run's next step ends it with
\* the job in status error, error_detail the exception's text and
\* progress_message 'Estimation failed.'; a job is in status running only
\* while its run is in flight, and a job in error is never marked done.
C2_ExceptionMarksError ==
    /\ [](\A j \in DOMAIN jobs : origin[j] = "create" =>
            /\ jobs[j].status = "running" => j \in DOMAIN tasks
            /\ AtPc(j, "raised") => jobs[j].status = "running" /\ tasks[j].exc # None)
    /\ [][\A j \in DOMAIN tasks :
            (tasks[j].pc = "raised" /\ (j \notin DOMAIN tasks' \/ jobs'[j] # jobs[j])) =>
               /\ j \notin DOMAIN tasks'
               /\ jobs'[j].status = "error"
               /\ jobs'[j].error_detail = Str(tasks[j].exc.msg)
               /\ jobs'[j].progress_message = "Estimation failed."]_vars
    /\ [][\A j \in DOMAIN jobs : jobs[j].status = "error" => jobs'[j].status # "done"]_vars

\* A run whose LLM call failed on every attempt has ended in error, with
\* the terminal failure's text kept.
C2_Witness ==
    \E j \in DOMAIN jobs :
        /\ origin[j] = "create"
        /\ j \notin DOMAIN tasks
        /\ jobs[j].status = "error"
        /\ jobs[j].error_detail = Str(RuntimeError(max_retries, NoToolUse).msg)
        /\ jobs[j].progress_message = "Estimation failed."

C4_DoneHoldsEstimate ==
    \A j \in DOMAIN jobs :
        jobs[j].status = "done" =>
           /\ HasAttr(jobs[j], "estimate_result") /\ jobs[j].estimate_result # None
           /\ HasAttr(jobs[j], "financials") /\ jobs[j].financials # None

\* C5: call_claude makes at most max_retries attempts, none after the first
\* success, whose estimate it returns; it sleeps 2^k seconds after failed
\* attempt k < max_retries and not after the last; every kind of failure
\* counts; when all attempts fail it raises RuntimeError with the last error.
C5_RetryBackoff ==
    claude # Idle =>
       LET c == claude.c
           outs == claude.outs
           n == Len(outs)
           failed == {i \in 1..n : ~outs[i].ok}
       IN  /\ c.api_calls = n
           /\ n <= max_retries
           /\ \A i \in 1..n : outs[i].ok => i = n
           /\ c.pc = "returned" <=> (n > 0 /\ outs[n].ok)
           /\ c.pc = "returned" => c.result = outs[n].value /\ c.exc = None
           /\ Len(c.sleeps) = Cardinality({i \in failed : i < max_retries})
           /\ \A k \in 1..Len(c.sleeps) : c.sleeps[k] = 2 ^ k
           /\ c.pc = "raised" <=> (n = max_retries /\ failed = 1..n)
           /\ c.pc = "raised" =>
                 /\ c.result = None
                 /\ c.exc = Exc("RuntimeError",
                               <<"Claude API failed after ", "3", " attempts: ">>
                               \o outs[n].value.msg)

\* A call whose three attempts failed in the three ways has raised, having
\* slept 2 and then 4 seconds.
C5_Witness ==
    /\ claude # Idle
    /\ claude.c.pc = "raised"
    /\ claude.c.sleeps = <<2, 4>>
    /\ {claude.outs[i].value : i \in 1..Len(claude.outs)}
          = {APIError, NoToolUse, ValidationError}

\* C6: the rollup's grand total mandays is the core's mandays plus the
\* mandays of every active satellite among all six.
C6_GrandTotalSixSatellites ==
    (rollup # Idle /\ rollup.output # None) =>
       LET s == rollup.estimate.satellites
       IN  rollup.output.grand_mandays =
              rollup.estimate.core.total_mandays
              + sat_md(s.pm_orchestration) + sat_md(s.dedicated_business_analysis)
              + sat_md(s.solution_architecture) + sat_md(s.cybersecurity)
              + sat_md(s.digital_experience) + sat_md(s.quality_assurance)

\* C7: a re-run without overrides of a done or error job is accepted and
\* schedules a run.
C7_RerunReusesInputs ==
    \A j \in DOMAIN jobs :
        jobs[j].status \in {"done", "error"} =>
           rerun_estimate_response(j, NoOverrides) = Ok

\* C8: deleting a final save is rejected and leaves the store as it is;
\* deleting a draft succeeds and removes the file, so a later get finds
\* nothing; deleting an unknown id reports not-found and changes nothing.
C8_DeleteSave ==
    /\ [](\A s \in SaveIds :
            LET r == saves_delete_save(saves, s)
                resp == delete_save_response(saves, s)
            IN  IF s \notin DOMAIN saves
                THEN resp.code = 404 /\ r[1] = saves
                ELSE IF saves[s].json.status = "final"
                THEN resp.code = 403 /\ r[1] = saves
                ELSE /\ resp = Ok
                     /\ DOMAIN r[1] = DOMAIN saves \ {s}
                     /\ saves_get_save(r[1], s) = None)
    /\ [][\A s \in SaveIds : delete_save(s) =>
            IF s \in DOMAIN saves /\ saves[s].json.status = "draft"
            THEN /\ DOMAIN saves' = DOMAIN saves \ {s}
                 /\ \A t \in DOMAIN saves' : saves'[t] = saves[t]
            ELSE saves' = saves]_vars

\* The first save, a draft, has been deleted while a final save stays.
C8_Witness ==
    /\ nextSave > 2
    /\ 1 \notin DOMAIN saves
    /\ 2 \in DOMAIN saves
    /\ saves[2].json.status = "final"

\* C9: no step changes or removes the stored record of a final save, and
\* no save moves from final to draft.
C9_FinalImmutable ==
    [][\A s \in DOMAIN saves :
          /\ saves[s].json.status = "final" =>
                s \in DOMAIN saves' /\ saves'[s] = saves[s]
          /\ (s \in DOMAIN saves' /\ saves'[s].json.status = "draft") =>
                saves[s].json.status = "draft"]_vars

\* A save finalized in this lifetime is still there after a job opened from
\* it was re-run.
C9_Witness ==
    \E s \in DOMAIN saves, j \in DOMAIN jobs :
        /\ saves[s].json.status = "final"
        /\ saves[s].json.updated_at > 0
        /\ origin[j] = "open"
        /\ jobs[j].save_id = s
        /\ jobs[j].status = "pending"

C11_ChatKeepsConsistent ==
    \A j \in DOMAIN jobs :
        jobs[j].status = "done" =>
           /\ chat_guard(j) = Ok
           /\ HasAttr(jobs[j], "estimate_result") /\ HasAttr(jobs[j], "financials")
           /\ jobs[j].financials =
                 _compute_financials(jobs[j].estimate_result,
                                     jobs[j].financials.manday_cost,
                                     jobs[j].financials.currency)

\* C12: a valid replacement without prose is answered with a diff summary
\* that has one line for each of core and the six satellites whose active
\* flag differs or whose mandays differ (by more than 0.01, both active);
\* a replacement with prose is answered with that prose.
C12_DiffSummary ==
    (claude # Idle /\ claude.returned # None /\ claude.out.tool = "valid") =>
       LET old == claude.current_estimate
           new == claude.out.estimate
           reply == claude.returned.reply
           changed == {n \in SatelliteNames :
                          \/ old.satellites[n].active # new.satellites[n].active
                          \/ /\ old.satellites[n].active /\ new.satellites[n].active
                             /\ Differs(old.satellites[n].total_mandays,
                                        new.satellites[n].total_mandays)}
           lines == Cardinality(changed)
                    + (IF Differs(old.core.total_mandays, new.core.total_mandays)
                       THEN 1 ELSE 0)
       IN  IF StripText(claude.out.text) = <<>>
           THEN Cardinality({i \in 1..Len(reply) :
                                reply[i] \in {"- **", "- **Core**: "}}) = lines
           ELSE reply = StripText(claude.out.text)

\* C13 (as amended): an unparsable URL or a failed listing request ends the
\* fetch with no digest and a warning; a failed file request ends it with a
\* digest without that file and no warning.  In each case the run goes on to
\* the LLM call with the job still running, and no error the job ends in is
\* the fetch's.
PastFetch(j) == j \in DOMAIN tasks /\ tasks[j].pc \notin {"queued", "fetch"}

FetchFailed(j) ==
    \/ ~Parsable(tasks[j].github_url)
    \/ claude.env.tree = "failed"
    \/ claude.env.tree = "listed" /\ claude.env.failing # {}

PartialDigest(failing) ==
    Digest \o (IF "README.md" \in failing THEN <<>> ELSE Chunk("README.md"))
           \o (IF "app.py" \in failing THEN <<>> ELSE Chunk("app.py"))

RerunRejected(j) ==
    \A req \in RerunRequests :
        /\ rerun_estimate_response(j, req) = Detail(409, "Cannot re-run a job that is still running")
        /\ ~rerun_resets(j, req)

RunUntouched(j) ==
    /\ (j \in DOMAIN tasks' /\ tasks'[j].pc = tasks[j].pc) =>
           jobs'[j] = jobs[j] /\ tasks'[j] = tasks[j]
    /\ j \notin DOMAIN tasks' => tasks[j].pc \in {"mark_done", "raised"}
    /\ jobs'[j].status # jobs[j].status =>
           \/ tasks[j].pc = "queued" /\ jobs'[j].status = "running"
           \/ tasks[j].pc = "mark_done" /\ jobs'[j].status = "done"
           \/ tasks[j].pc = "raised" /\ jobs'[j].status = "error"

C14_NoRerunInProgress ==
    /\ [](\A j \in DOMAIN jobs :
            /\ jobs[j].status \in {"pending", "running"} => RerunRejected(j)
            /\ \A req \in RerunRequests :
                  rerun_estimate_response(j, req) = Ok => jobs[j].status \in {"done", "error"})
    /\ [][\A j \in DOMAIN tasks : RunUntouched(j)]_vars

\* One job waits for its run to start and another is at the LLM call; both
\* reject every re-run request.
C14_Witness ==
    \E j, k \in DOMAIN jobs :
        /\ jobs[j].status = "pending" /\ AtPc(j, "queued")
        /\ jobs[k].status = "running" /\ AtPc(k, "call")
        /\ RerunRejected(j) /\ RerunRejected(k)

\* C15: create-save, update-save, plan, chat and report download answer 404
\* for an unknown job id and 409 for a job that is pending, running or in
\* error, and a step of one of these handlers on such a job changes nothing:
\* no job record, chat history, report file or save.
NotCompleteResponses(j, code) ==
    /\ create_save_response(j).code = code
    /\ \A s \in SaveIds : update_save_response(s, j).code = code
    /\ get_job_plan_response(j).code = code
    /\ chat_guard(j).code = code
    /\ get_report_response(j).code = code

NotCompleteStep(j) ==
    \/ \E name \in NameInputs : create_save(j, name)
    \/ \E s \in SaveIds : update_save(s, j)
    \/ get_job_plan(j)
    \/ \E m \in ChatMessages : chat(j, m)
    \/ get_report(j)

C15_NotDoneRejected ==
    /\ [](\A j \in JobIds :
            /\ j \notin DOMAIN jobs => NotCompleteResponses(j, 404)
            /\ (j \in DOMAIN jobs /\ jobs[j].status # "done") => NotCompleteResponses(j, 409))
    /\ [][\/ UNCHANGED vars
          \/ \A j \in JobIds :
                (j \notin DOMAIN jobs \/ jobs[j].status # "done") => ~NotCompleteStep(j)]_vars

\* A job that ended in error next to an id no job has.
C15_Witness ==
    \E j, k \in JobIds :
        /\ j \in DOMAIN jobs /\ jobs[j].status = "error"
        /\ k \notin DOMAIN jobs
        /\ NotCompleteResponses(j, 409) /\ NotCompleteResponses(k, 404)

\* C16: a step of an operation on one job (its run, a re-run, a chat, a
\* status, plan or report request, a save of it) leaves the record, the run
\* frame and the report file of every other job as they were, whatever the
\* other jobs are doing.
\* A step of j's run: it moves or ends j's frame.
RunStep(j) ==
    /\ j \in DOMAIN tasks
    /\ j \in DOMAIN tasks' => tasks'[j] # tasks[j]
    /\ run_estimation(j)

JobOperation(j) ==
    \/ RunStep(j)
    \/ \E req \in RerunRequests : rerun_estimate(j, req)
    \/ \E m \in ChatMessages : chat(j, m)
    \/ get_status(j)
    \/ get_job_plan(j)
    \/ get_report(j)
    \/ \E name \in NameInputs : create_save(j, name)
    \/ \E s \in SaveIds : update_save(s, j)

OthersUntouched(j) ==
    \A k \in DOMAIN jobs \ {j} :
        /\ k \in DOMAIN jobs' /\ jobs'[k] = jobs[k]
        /\ k \in DOMAIN tasks <=> k \in DOMAIN tasks'
        /\ k \in DOMAIN tasks => tasks'[k] = tasks[k]
        /\ k \in DOMAIN files <=> k \in DOMAIN files'
        /\ k \in DOMAIN files => files'[k] = files[k]

C16_JobsIndependent ==
    [][\/ UNCHANGED vars
       \/ \A j \in JobIds : OthersUntouched(j) \/ ~JobOperation(j)]_vars

\* Two jobs side by side: one is done with its report written, the other is
\* still at the LLM call and has no report.
C16_Witness ==
    \E j, k \in DOMAIN jobs :
        /\ jobs[j].status = "done" /\ j \in DOMAIN files /\ j \notin DOMAIN tasks
        /\ jobs[k].status = "running" /\ AtPc(k, "call") /\ k \notin DOMAIN files
        /\ jobs[k].report_path = None

\* C17: every re-run request on a job that is done or in error resets it:
\* the handler reaches its update_job call, after which the job is pending
\* with the initial progress message and without error detail, estimate,
\* financials or chat transcript, under the id it had.
C17_RerunResetsJob ==
    \A j \in DOMAIN jobs : \A req \in RerunRequests :
        jobs[j].status \in {"done", "error"} =>
            LET job == jobs[j]
                reset == update_job(jobs, j,
                            RerunUpdate(rerun_model_md(job, req),
                                        rerun_requirements_md(job, req)))[j]
            IN  /\ rerun_resets(j, req)
                /\ reset.status = "pending"
                /\ reset.progress_message = "Waiting to start..."
                /\ reset.error_detail = None
                /\ reset.estimate_result = None /\ reset.financials = None
                /\ reset.chat_history = <<>>
                /\ reset.job_id = job.job_id /\ reset.save_id = job.save_id

\* The estimate model_validate accepted, when it accepted one.
Accepted == claude.validated # None /\ claude.validated.ok

\* C18: every estimate the schema validation lets through has a core total
\* equal, within 5 % or half a manday, to base effort times the scalability
\* multiplier plus the mandays of the spikes.
C18_CoreTotalFormula ==
    Accepted =>
        LET core == claude.validated.value.core
        IN  is_close(core.total_mandays,
                     (core.base_fcu_mandays * core.scalability_multiplier) \div 10
                        + SumMandays(core.spikes))

\* C19: in every estimate the schema validation lets through the mandays of
\* the roles add up, within 5 % or half a manday, to the core total plus the
\* totals of the active satellites.
C19_RolesSumToGrandTotal ==
    Accepted =>
        is_close(SumMandays(claude.validated.value.roles),
                 grand_total_mandays(claude.validated.value))

\* C20: in every estimate the schema validation lets through each phase
\* starts in week 1 or later and ends no earlier than it starts, and a role
\* of the role list that the phases mention gets from them its total.
C20_PlanPhasesValid ==
    Accepted =>
        LET est == claude.validated.value
        IN  /\ \A i \in 1..Len(est.plan_phases) :
                  /\ est.plan_phases[i].start_week >= 1
                  /\ est.plan_phases[i].end_week >= est.plan_phases[i].start_week
            /\ \A i \in 1..Len(est.roles) :
                  (\E p \in 1..Len(est.plan_phases) :
                      \E k \in 1..Len(est.plan_phases[p].roles) :
                          est.plan_phases[p].roles[k].role = est.roles[i].role)
                  => is_close(PhaseSum(est.plan_phases, est.roles[i].role),
                              est.roles[i].mandays)

\* C21: in the financial summary the cost of each component is its counted
\* mandays times the day rate rounded to two decimals (a whole number of
\* hundredths at most half a hundredth away from the product); a satellite
\* that is not active counts 0 mandays and costs 0 whatever its
\* total_mandays; grand_cost is the sum of the counted mandays times the
\* day rate, rounded the same way.
Components == {"core", "pm", "ba", "sa", "cyber", "dx", "qa"}

Mandays(f, c) ==
    [core |-> f.core_mandays, pm |-> f.pm_mandays, ba |-> f.ba_mandays,
     sa |-> f.sa_mandays, cyber |-> f.cyber_mandays, dx |-> f.dx_mandays,
     qa |-> f.qa_mandays][c]

Cost(f, c) ==
    [core |-> f.core_cost, pm |-> f.pm_cost, ba |-> f.ba_cost,
     sa |-> f.sa_cost, cyber |-> f.cyber_cost, dx |-> f.dx_cost,
     qa |-> f.qa_cost][c]

ComponentOf ==
    [pm_orchestration |-> "pm", dedicated_business_analysis |-> "ba",
     solution_architecture |-> "sa", cybersecurity |-> "cyber",
     digital_experience |-> "dx", quality_assurance |-> "qa"]

RoundedTo2(cost, product) ==
    /\ cost % 10 = 0
    /\ cost - product <= 5 /\ product - cost <= 5

NoRequirements(req) ==
    req.requirements_file = "" /\ req.requirements_text \in {"", "   "}

Created(req, j) ==
    /\ j \notin DOMAIN jobs /\ j \notin DOMAIN tasks
    /\ DOMAIN jobs' = DOMAIN jobs \cup {j}
    /\ DOMAIN tasks' = DOMAIN tasks \cup {j}
    /\ jobs'[j].status = "pending"
    /\ tasks'[j].pc = "queued"
    /\ tasks'[j].requirements_md =
          IF req.requirements_file # "" THEN req.requirements_file
          ELSE IF req.requirements_text = " R-text " THEN "R-text"
          ELSE "none"

C22_CreateNeedsRequirements ==
    /\ [](\A req \in CreateRequests :
            IF NoRequirements(req)
            THEN create_estimate_response(req).code = 422
            ELSE create_estimate_response(req) = Ok)
    /\ [][\/ UNCHANGED vars
          \/ /\ \A req \in CreateRequests : NoRequirements(req) => ~create_estimate(req)
             /\ DOMAIN jobs' # DOMAIN jobs =>
                   \E req \in CreateRequests, j \in JobIds :
                       ~NoRequirements(req) /\ create_estimate(req) /\ Created(req, j)]_vars

\* Two scheduled runs: one of a request that carried a file and a text,
\* holding the file's content, one of a request with text only.
C22_Witness ==
    \E j, k \in DOMAIN tasks :
        /\ AtPc(j, "queued") /\ tasks[j].requirements_md = "R-file"
        /\ tasks[j].model_md = "M-upload"
        /\ AtPc(k, "queued") /\ tasks[k].requirements_md = "R-text"
        /\ jobs[j].status = "pending" /\ jobs[k].status = "pending"

\* C23: an update of a draft save from a done job writes the job's report,
\* estimate and financial summary into the save and keeps the save's id,
\* name, status, creation time and input texts, and every other save; an
\* update of a save that is final or does not exist answers not-found and
\* writes nothing.
Updatable(s) == s \in DOMAIN saves /\ saves[s].json.status = "draft"

SaveUpdated(s, j) ==
    LET old == saves[s].json
        new == saves'[s].json
    IN  /\ DOMAIN saves' = DOMAIN saves
        /\ \A t \in DOMAIN saves \ {s} : saves'[t] = saves[t]
        /\ new.report_markdown = ReadText(files[j])
        /\ new.estimate_data = jobs[j].estimate_result
        /\ new.financials_data = jobs[j].financials
        /\ new.save_id = old.save_id /\ new.name = old.name
        /\ new.status = "draft" /\ new.created_at = old.created_at
        /\ new.requirements_md = old.requirements_md
        /\ new.model_md = old.model_md
        /\ UNCHANGED <<jobs, files>>

FileSections(digest) == SelectSeq(digest.sections, LAMBDA sec : sec.kind = "file")

ListingIndex(listing, path) == CHOOSE i \in 1..Len(listing) : listing[i].path = path

PriorityClass(path) ==
    LET ext == path.name[Len(path.name)]
    IN  IF ext \in {".md", ".rst", ".txt"} THEN 1
        ELSE IF ext \in {".py", ".ts", ".tsx", ".js", ".jsx", ".go", ".java", ".rb",
                         ".rs", ".cs", ".cpp", ".c"} THEN 2
        ELSE IF ext \in {".json", ".yaml", ".yml", ".toml", ".example"} THEN 3
        ELSE 4

HasSkippedPart(path) ==
    \E part \in {path.dirs[i] : i \in 1..Len(path.dirs)}
                 \cup (IF Len(path.name) = 1 THEN {path.name[1]} ELSE {}) :
        part \in {"node_modules", ".git", "dist", "build", "vendor", "__pycache__",
                  ".next", "coverage"}

C24_DigestOrder ==
    (claude # Idle /\ claude.digest # None) =>
        LET included == FileSections(claude.digest)
            fetched == claude.digest.fetched
        IN  /\ \A i, k \in 1..Len(included) :
                  i < k =>
                     /\ PriorityClass(included[i].path) <= PriorityClass(included[k].path)
                     /\ _extension_priority(included[i].path)
                           <= _extension_priority(included[k].path)
                     /\ _extension_priority(included[i].path)
                           = _extension_priority(included[k].path)
                        => ListingIndex(claude.listing, included[i].path)
                             < ListingIndex(claude.listing, included[k].path)
            /\ \A i \in 1..Len(included) : ~HasSkippedPart(included[i].path)
            /\ \A i \in 1..Len(fetched) : ~HasSkippedPart(fetched[i])
            /\ \A i \in 1..Len(included) :
                  \E k \in 1..Len(fetched) : fetched[k] = included[i].path

\* The digest of the listing LICENSE, src/app.py, docs/guide.md holds the
\* guide, then app.py, then LICENSE.
C24_Witness ==
    /\ claude # Idle /\ claude.digest # None
    /\ Len(claude.listing) = 3
    /\ claude.listing[1].path.name = <<"LICENSE">>
    /\ claude.listing[2].path.name = <<"app", ".py">>
    /\ claude.listing[3].path.name = <<"guide", ".md">>
    /\ Len(FileSections(claude.digest)) = 3
    /\ FileSections(claude.digest)[1].path.name = <<"guide", ".md">>
    /\ FileSections(claude.digest)[2].path.name = <<"app", ".py">>
    /\ FileSections(claude.digest)[3].path.name = <<"LICENSE">>

\* C25: the digest is never longer than the budget of 80,000 characters.
RECURSIVE SumChars(_)
SumChars(sections) ==
    IF sections = <<>> THEN 0 ELSE Head(sections).chars + SumChars(Tail(sections))

C25_DigestWithinBudget ==
    (claude # Idle /\ claude.digest # None) =>
        SumChars(claude.digest.sections) <= 80000

\* C26: every list list_saves can return holds exactly one summary for each
\* readable save file and none for a file that cannot be read, in
\* non-increasing order of modification time, so that the save written last
\* (created, updated or finalized) is first.
ReadableSaves(store) == {s \in DOMAIN store : store[s].json # Garbled}

C26_ListSaves ==
    \A listed \in saves_list_saves(saves) :
        /\ Len(listed) = Cardinality(ReadableSaves(saves))
        /\ \A s \in ReadableSaves(saves) :
              \E i \in 1..Len(listed) :
                 /\ listed[i].save_id = s
                 /\ listed[i].name = saves[s].json.name
                 /\ listed[i].status = saves[s].json.status
                 /\ listed[i].updated_at = saves[s].json.updated_at
                 /\ listed[i].grand_cost = saves[s].json.financials_data.grand_cost
        /\ \A i, k \in 1..Len(listed) :
              i < k => saves[listed[i].save_id].mtime >= saves[listed[k].save_id].mtime
        /\ \A s \in ReadableSaves(saves) :
              listed # <<>> => listed[1].updated_at >= saves[s].json.updated_at

\* Save 1 was updated after save 2 was created: the listing holds save 1, then
\* save 2, and nothing for the unreadable file.
C26_Witness ==
    /\ DOMAIN saves = {0, 1, 2}
    /\ saves[1].mtime > saves[2].mtime
    /\ saves[2].mtime > 0
    /\ \A listed \in saves_list_saves(saves) :
          Len(listed) = 2 /\ listed[1].save_id = 1 /\ listed[2].save_id = 2

\* C27: every job that is pending or running eventually is done or in error.
Unfinished(j) == j \in DOMAIN jobs /\ jobs[j].status \in {"pending", "running"}

Finished(j) == j \in DOMAIN jobs /\ jobs[j].status \in {"done", "error"}

C27_RunsEnd == \A j \in JobIds : Unfinished(j) ~> Finished(j)

\* The jobs of the create endpoint do end (their run is the only one they get).
CreatedRunsEnd ==
    \A j \in JobIds : (Unfinished(j) /\ origin[j] = "create") ~> Finished(j)

\* C28: no job ever has more than one estimation run scheduled or under way,
\* whatever the interleaving of the requests: two re-run requests that both
\* passed the status check never both schedule a run.
RerunsScheduled(j) ==
    {r \in RequestIds : /\ claude[r].handler = "rerun"
                        /\ claude[r].job_id = j
                        /\ claude[r].pc = "scheduled"}

RunsInFlight(j) ==
    (IF j \in DOMAIN tasks /\ tasks[j].pc # "bad_call" THEN 1 ELSE 0)
    + Cardinality(RerunsScheduled(j))

C28_OneRunPerJob == \A j \in DOMAIN jobs : RunsInFlight(j) <= 1

\* Two re-run requests for one job passed the status check; the first has
\* reset the job and was answered, the second is still reading its upload.
C28_Witness ==
    /\ claude["a"].handler = "rerun" /\ claude["b"].handler = "rerun"
    /\ claude["a"].job_id = claude["b"].job_id
    /\ claude["a"].pc = "answered" /\ claude["a"].code = 500
    /\ claude["b"].pc = "reading"
    /\ jobs[claude["a"].job_id].status = "pending"
    /\ RunsInFlight(claude["a"].job_id) = 0

\* C29: chat requests admitted on a done job are served, and once none is
\* being served the report file of every done job is the rendering of the
\* estimate and the financial summary the job holds.
ChatsInFlight ==
    {r \in RequestIds : claude[r].handler = "chat" /\ claude[r].pc # "answered"}

C29_ChatsEndConsistent ==
    /\ \A r \in RequestIds :
          (claude[r].handler = "chat" /\ claude[r].pc = "answered") =>
              claude[r].code \in {200, 404, 409}
    /\ ChatsInFlight = {} =>
          \A j \in DOMAIN jobs :
             (jobs[j].status = "done" /\ HasAttr(jobs[j], "estimate_result")) =>
                 files[j] = WriteText(Render(jobs[j].estimate_result,
                                             jobs[j].financials, <<>>))

\* C30: a job that a re-run has reset and that is pending or running holds
\* no estimate, no financial summary and an empty chat transcript, and its
\* report file is the one it had: no chat request writes into it.
ResetByRerun(j) ==
    /\ HasAttr(jobs[j], "chat_history")
    /\ jobs[j].status \in {"pending", "running"}

C30_NoChatIntoRerunJob ==
    \A j \in DOMAIN jobs :
        ResetByRerun(j) =>
           /\ jobs[j].estimate_result = None
           /\ jobs[j].financials = None
           /\ jobs[j].chat_history = <<>>
           /\ files[j] = OpenReportFile(saves[jobs[j].save_id].json)

\* A chat request was admitted while the job was done, the re-run reset the
\* job, and the chat then ended on the estimate the reset had removed.
C30_Witness ==
    \E r \in RequestIds :
        /\ claude[r].handler = "chat"
        /\ claude[r].pc = "answered"
        /\ claude[r].detail = "AttributeError: model_dump_json"
        /\ ResetByRerun(claude[r].job_id)

\* C31: on every done job a chat request that the LLM answers in prose only
\* is served: the answer leaves the job's estimate, financial summary,
\* status and report file as they were, carries no replacement estimate,
\* and the transcript grows by the user message and the reply.
ProseOutcomes == {out \in ChatOutcomes : ~out.raised /\ out.tool # "valid"}

ProseTurn(job, message, out) ==
    <<[role |-> "user", content |-> <<message>>],
      [role |-> "assistant", content |-> chat_with_claude(out, job.estimate_result)[1]]>>

C31_ProseChatServed ==
    \A j \in DOMAIN jobs :
        jobs[j].status = "done" =>
           /\ chat_guard(j) = Ok
           /\ \A m \in ChatMessages, out \in ProseOutcomes :
                 LET turn == ProseTurn(jobs[j], m, out)
                     after == update_job(jobs, j,
                                 [chat_history |-> jobs[j].chat_history \o turn])[j]
                 IN  /\ chat_with_claude(out, jobs[j].estimate_result)[2] = None
                     /\ after.estimate_result = jobs[j].estimate_result
                     /\ after.financials = jobs[j].financials
                     /\ after.status = "done"
                     /\ Len(after.chat_history) = Len(jobs[j].chat_history) + 2

\* C32: every chat request admitted on a done job makes its LLM call, and
\* makes it once; the transcript of every job is a sequence of pairs, a user
\* message followed by an assistant reply.
AdmittedChats ==
    {r \in RequestIds : /\ claude[r].handler = "chat"
                        /\ claude[r].pc = "answered"
                        /\ claude[r].code \notin {404, 409}}

PairedTranscript(history) ==
    /\ Len(history) % 2 = 0
    /\ \A i \in 1..Len(history) :
          history[i].role = (IF i % 2 = 1 THEN "user" ELSE "assistant")

C32_ChatCallsOnce ==
    /\ \A r \in AdmittedChats : claude[r].calls = 1
    /\ \A j \in DOMAIN jobs : PairedTranscript(jobs[j].chat_history)

\* No chat request makes more than one LLM call (nor, here, any).
ChatCallsAtMostOnce == \A r \in RequestIds : claude[r].calls <= 1

C35_RerunKeepsRate ==
    \A j \in DOMAIN jobs :
        (origin[j] = "create" /\ jobs[j].status \in {"done", "error"}) =>
            /\ HasAttr(jobs[j], "financials")
            /\ jobs[j].financials # None
            /\ \A req \in RerunRequests : rerun_estimate_response(j, req) = Ok

\* C36: a step that opens a save leaves every save and every other job as
\* they were and adds one job, under an id no job had, that references the
\* save and holds its estimate, financial summary, requirements text and
\* model text; and a step that changes one job (a chat, a re-run) changes
\* no other job and no save.
OpenedFrom(job, data) ==
    /\ {"estimate_result", "financials", "requirements_md", "model_md", "save_id"}
          \subseteq job.attrs
    /\ job.estimate_result = data.estimate_data
    /\ job.financials = data.financials_data
    /\ job.requirements_md = data.requirements_md
    /\ job.model_md = data.model_md

C36_OpenSaveLoadsSave ==
    [][\/ jobs' = jobs
       \/ /\ saves' = saves
          /\ \A j \in DOMAIN jobs' \ DOMAIN jobs :
                /\ DOMAIN jobs' = DOMAIN jobs \cup {j}
                /\ \A k \in DOMAIN jobs : jobs'[k] = jobs[k]
                /\ jobs'[j].save_id \in DOMAIN saves
                /\ OpenedFrom(jobs'[j], saves[jobs'[j].save_id].json)
          /\ \A j \in DOMAIN jobs :
                jobs'[j] # jobs[j] =>
                   \A k \in DOMAIN jobs \ {j} : jobs'[k] = jobs[k]]_vars

\* Two jobs opened from the same save, each holding the save's estimate.
C36_Witness ==
    \E j, k \in DOMAIN jobs :
        /\ j # k
        /\ origin[j] = "open" /\ origin[k] = "open"
        /\ jobs[j].save_id = jobs[k].save_id
        /\ jobs[j].save_id \in DOMAIN saves
        /\ jobs[j].status = "done" /\ jobs[k].status = "done"
        /\ OpenedFrom(jobs[j], saves[jobs[j].save_id].json)
        /\ OpenedFrom(jobs[k], saves[jobs[k].save_id].json)

\* C37: finalizing a draft stores it with status final and a new updated_at
\* and nothing else changed; finalizing a final save returns the stored
\* record and writes nothing, so a second finalize changes nothing;
\* finalizing an unknown id answers not-found.
FinalizedOnce(s) == saves_finalize_save(saves, s, clock + 1)

FinalizedTwice(s) == saves_finalize_save(FinalizedOnce(s)[1], s, clock + 2)

C37_FinalizeIdempotent ==
    /\ [](\A s \in SaveIds :
            IF s \notin DOMAIN saves
            THEN /\ FinalizedOnce(s) = <<saves, None>>
                 /\ finalize_save_response(s) = Detail(404, "Save not found")
            ELSE /\ finalize_save_response(s) = Ok
                 /\ FinalizedTwice(s) = FinalizedOnce(s)
                 /\ FinalizedOnce(s)[2] = FinalizedOnce(s)[1][s].json
                 /\ saves[s].json.status = "final" =>
                       FinalizedOnce(s) = <<saves, saves[s].json>>
                 /\ saves[s].json.status = "draft" =>
                       FinalizedOnce(s)[2] =
                          [saves[s].json EXCEPT !.status = "final",
                                                !.updated_at = clock + 1])
    /\ [][\A s \in DOMAIN saves \cap DOMAIN saves' :
            (saves[s].json.status = "draft" /\ saves'[s].json.status = "final") =>
                /\ saves' = FinalizedOnce(s)[1]
                /\ saves'[s].json.updated_at > saves[s].json.updated_at
                /\ \A t \in DOMAIN saves \ {s} :
                      t \in DOMAIN saves' /\ saves'[t] = saves[t]]_vars

\* A save finalized in this lifetime: final, with the time of the finalize,
\* which a further finalize leaves as it is.
C37_Witness ==
    \E s \in DOMAIN saves :
        /\ saves[s].json.status = "final"
        /\ saves[s].json.updated_at > saves[s].json.created_at
        /\ saves[s].mtime = saves[s].json.updated_at
        /\ FinalizedOnce(s) = <<saves, saves[s].json>>

\* What a save made from a job holds of it.
SavedFrom(data, job, report) ==
    /\ job.status = "done"
    /\ data.requirements_md = job.requirements_md
    /\ data.model_md = job.model_md
    /\ data.estimate_data = job.estimate_result
    /\ data.financials_data = job.financials
    /\ data.report_markdown = ReadText(report)

\* A step that adds a save adds one draft, under an id no save has had,
\* created and updated at the time of the step, holding what a done job
\* holds, and which get_save returns as stored; it changes no other save and
\* no job.  A step that changes a job (a chat, a re-run) changes no save.
CreateSaveStoresJob ==
    /\ \A s \in DOMAIN saves' \ DOMAIN saves :
            /\ s = nextSave /\ nextSave' = nextSave + 1
            /\ DOMAIN saves' = DOMAIN saves \cup {s}
            /\ \A t \in DOMAIN saves : saves'[t] = saves[t]
            /\ jobs' = jobs /\ files' = files
            /\ saves_get_save(saves', s) = saves'[s].json
            /\ saves'[s].json.save_id = s
            /\ saves'[s].json.status = "draft"
            /\ saves'[s].json.created_at = clock'
            /\ saves'[s].json.updated_at = clock'
            /\ \E j \in DOMAIN jobs : SavedFrom(saves'[s].json, jobs[j], files[j])
    /\ jobs' # jobs => saves' = saves

\* C38: create_save accepts every done job, the save it stores is a new
\* draft under a fresh id holding the job's requirements, model text,
\* report, estimate and financial summary of that moment, get_save returns
\* it as stored, and no later chat or re-run of the job changes it.
C38_CreateSaveFromDone ==
    /\ [](\A j \in DOMAIN jobs :
            jobs[j].status = "done" => create_save_response(j) = Ok)
    /\ [][CreateSaveStoresJob]_vars


\* C39: the content kept of a file of more than 200 lines is its first 200
\* lines, in order, followed by one truncation marker line; the content kept
\* of a file of 200 lines or fewer is all its lines, in order, and holds no
\* marker.
C39_FileLineCap ==
    claude.content # None =>
        LET n == claude.text.n
            kept == claude.content.lines
        IN  IF n > 200
            THEN /\ Len(kept) = 201
                 /\ \A i \in 1..200 : kept[i] = FileLine(i)
                 /\ kept[201] = TruncationMarker
            ELSE /\ Len(kept) = n
                 /\ \A i \in 1..n : kept[i] = FileLine(i)
                 /\ \A i \in 1..Len(kept) : kept[i].kind # "marker"

\* A file of 201 lines was fetched: 200 lines and the marker are kept.
C39_Witness ==
    /\ claude.text.n = 201
    /\ claude.content # None
    /\ Len(claude.content.lines) = 201
    /\ claude.content.lines[200] = FileLine(200)
    /\ claude.content.lines[201] = TruncationMarker

====
